---- MODULE Spec2Model ----
(***************************************************************************)
(* Event recognition of packit-service: the webhook chain Parser.parse_event *)
(* with its 14 extractors, and the CentOS topic dispatch                   *)
(* CentosEventParser.parse_event (src/packit_service/worker/parser.py),     *)
(* together with the configuration lookup they use                          *)
(* (src/packit_service/config.py).                                          *)
(*                                                                         *)
(* A raw payload is a JSON mapping.  It is modelled as a function from the *)
(* key paths the extractors read ("repository.owner.login") to the text of *)
(* the scalar stored there; Absent marks a key that is missing.  A nested  *)
(* mapping exists exactly when one of the leaves below it is present, so a *)
(* missing mapping and an empty one are the same payload here (Python      *)
(* treats both as falsy in every test the extractors make, and both make a *)
(* subscript chain raise).                                                 *)
(***************************************************************************)
EXTENDS Integers, Sequences, FiniteSets, TLC

(***************************************************************************)
(* Bounds of the exploration.                                              *)
(***************************************************************************)
\* a payload differs from a well-formed payload of its source in at most
\* this many keys
MaxDeviations == 2
\* the longest configured list of mirroring rules
MaxRules == 2
\* how many times the same payload is handed to the parser
MaxRuns == 2

(***************************************************************************)
(* Python values.                                                          *)
(***************************************************************************)
Absent == "<absent>"
NoneV == "None"
Falsy == {NoneV, "", "0", "False", "[]", "{}"}

\* bool(v) of a value that was read
Truthy(v) == v \notin Falsy

\* dict.get(key): None for a missing key
Get(event, p) == IF event[p] = Absent THEN NoneV ELSE event[p]

\* `key in event`
HasKey(event, p) == event[p] # Absent

\* packit.utils.nested_get(event, *keys, default=d): the value at the path,
\* the default when a segment of the path is missing
nested_get_default(event, p, d) == IF event[p] = Absent THEN d ELSE event[p]

nested_get(event, p) == nested_get_default(event, p, NoneV)

(***************************************************************************)
(* The outcome of one extractor, and of a parse: no event (Python None),   *)
(* an exception, or an event of some variant with the keyword arguments    *)
(* the parser passed to its constructor.                                   *)
(***************************************************************************)
NoneR == [kind |-> "none", tag |-> "", fields |-> <<>>]

Raise(exc) == [kind |-> "raise", tag |-> exc, fields |-> <<>>]

Ev(variant, fields) == [kind |-> "event", tag |-> variant, fields |-> fields]

\* `if response:` in the chain; an event object is truthy, None is not
IsEvent(r) == r.kind = "event"

(***************************************************************************)
(* Enumerations of service/events.py, name -> value.                       *)
(***************************************************************************)
PullRequestAction ==
  [opened |-> "opened", reopened |-> "reopened", synchronize |-> "synchronize"]

PullRequestCommentAction == [created |-> "created", edited |-> "edited"]

IssueCommentAction == [created |-> "created", edited |-> "edited"]

\* GitlabEventAction is imported by the parser; its members that the parser
\* can look up
GitlabEventAction ==
  [opened |-> "opened", reopen |-> "reopen", update |-> "update"]

\* Enum[name]: KeyError for a name that is not a member
EnumHas(enum, name) == name \in DOMAIN enum

(***************************************************************************)
(* Strings the code takes apart.                                           *)
(***************************************************************************)
ZeroSha == "0000000000000000000000000000000000000000"

\* the characters of the commit ids that occur in payloads
Chars(s) ==
  CASE s = ZeroSha -> [i \in 1..40 |-> "0"]
    [] s = "0000000a1b2c3d4e" ->
         <<"0","0","0","0","0","0","0","a","1","b","2","c","3","d","4","e">>
    [] s = "4b825dc642cb6eb9" ->
         <<"4","b","8","2","5","d","c","6","4","2","c","b","6","e","b","9">>
    [] s = "" -> <<>>
    [] OTHER -> <<"x">>

\* str.startswith(prefix), prefix given by its characters
StartsWith(s, prefix) ==
  /\ Len(Chars(s)) >= Len(prefix)
  /\ \A i \in 1..Len(prefix) : Chars(s)[i] = prefix[i]

SevenZeros == <<"0","0","0","0","0","0","0">>

\* the "/"-separated components of the references that occur in payloads
Components(s) ==
  CASE s = "refs/heads/main" -> <<"refs", "heads", "main">>
    [] s = "refs/heads/feature/x" -> <<"refs", "heads", "feature", "x">>
    [] s = "refs/tags/1.2.3" -> <<"refs", "tags", "1.2.3">>
    [] s = "main" -> <<"main">>
    [] s = "git.centos.org/pull-request.new" ->
         <<"git.centos.org", "pull-request.new">>
    [] s = "git.centos.org/pull-request.reopened" ->
         <<"git.centos.org", "pull-request.reopened">>
    [] s = "git.centos.org/pull-request.updated" ->
         <<"git.centos.org", "pull-request.updated">>
    [] s = "git.centos.org/pull-request.comment.added" ->
         <<"git.centos.org", "pull-request.comment.added">>
    [] s = "git.centos.org/pull-request.comment.edited" ->
         <<"git.centos.org", "pull-request.comment.edited">>
    [] s = "git.centos.org/git.receive" ->
         <<"git.centos.org", "git.receive">>
    [] s = "git.centos.org/pull-request.tag.added" ->
         <<"git.centos.org", "pull-request.tag.added">>
    [] s = "git.centos.org/a/b" -> <<"git.centos.org", "a", "b">>
    [] OTHER -> <<s>>

\* "/".join(parts)
Join(parts) ==
  CASE parts = <<"main">> -> "main"
    [] parts = <<"feature", "x">> -> "feature/x"
    [] parts = <<"1.2.3">> -> "1.2.3"
    [] parts = <<"refs">> -> "refs"
    [] parts = <<"heads">> -> "heads"
    [] parts = <<"tags">> -> "tags"
    [] OTHER -> "?"

\* str.split("/")[-1]: the last component
SplitRefLast_every_slash(s) ==
  LET c == Components(s)
  IN  c[Len(c)]

\* str.split("/", maxsplit=2)[-1]: the text after the second "/", the last
\* component when there are fewer than two "/"
SplitRefLast(s) ==
  LET c == Components(s)
  IN  IF Len(c) <= 3 THEN c[Len(c)] ELSE Join(SubSeq(c, 3, Len(c)))

\* ogr.parsing.parse_git_repo(potential_url): namespace and repo of a
\* project URL, None for text that is no repository URL
parse_git_repo(url) ==
  CASE url = "https://gitlab.com/ns/repo" ->
         [ok |-> TRUE, namespace |-> "ns", repo |-> "repo"]
    [] url = "https://gitlab.com/fork/repo" ->
         [ok |-> TRUE, namespace |-> "fork", repo |-> "repo"]
    [] OTHER -> [ok |-> FALSE, namespace |-> NoneV, repo |-> NoneV]

(***************************************************************************)
(* Nested mappings whose truth value the extractors test: the leaves that  *)
(* can occur below each.                                                   *)
(***************************************************************************)
Children(c) ==
  CASE c = "pull_request" ->
         {"pull_request.head.repo.owner.login", "pull_request.head.repo.name",
          "pull_request.head.sha", "pull_request.user.login",
          "pull_request.base.repo.owner.login", "pull_request.base.repo.name"}
    [] c = "release" -> {"release.tag_name", "release.id"}
    [] c = "installation.account" ->
         {"installation.account.login", "installation.account.id",
          "installation.account.url", "installation.account.type"}
    [] c = "sender" -> {"sender.id", "sender.login"}
    [] c = "issue" ->
         {"issue.pull_request", "issue.number", "issue.user.login",
          "issue.iid", "issue.state"}
    [] c = "merge_request" ->
         {"merge_request.state", "merge_request.action", "merge_request.iid",
          "merge_request.id", "merge_request.source.web_url",
          "merge_request.last_commit.id"}

\* bool(event.get(c)) for a nested mapping c
MappingTruthy(event, c) == \E p \in Children(c) : event[p] # Absent

(***************************************************************************)
(* GitHub extractors.                                                      *)
(***************************************************************************)
parse_pr_event(event) ==
  LET pr_id == Get(event, "number")
      action == Get(event, "action")
      base_repo_namespace ==
        nested_get(event, "pull_request.head.repo.owner.login")
      base_repo_name == nested_get(event, "pull_request.head.repo.name")
      base_ref == nested_get(event, "pull_request.head.sha")
      user_login == nested_get(event, "pull_request.user.login")
  IN  IF ~MappingTruthy(event, "pull_request") THEN NoneR
      ELSE IF action \notin {"opened", "reopened", "synchronize"}
              \/ ~Truthy(pr_id) THEN NoneR
      ELSE IF ~(Truthy(base_repo_name) /\ Truthy(base_repo_namespace))
        THEN NoneR
      ELSE IF ~Truthy(base_ref) THEN NoneR
      ELSE IF ~Truthy(user_login) THEN NoneR
      \* event["repository"]["html_url"]
      ELSE IF ~HasKey(event, "repository.html_url") THEN Raise("KeyError")
      ELSE Ev("PullRequestGithubEvent",
              [action |-> PullRequestAction[action],
               pr_id |-> pr_id,
               base_repo_namespace |-> base_repo_namespace,
               base_repo_name |-> base_repo_name,
               base_ref |-> base_ref,
               target_repo_namespace |->
                 nested_get(event, "pull_request.base.repo.owner.login"),
               target_repo_name |->
                 nested_get(event, "pull_request.base.repo.name"),
               project_url |-> event["repository.html_url"],
               commit_sha |-> nested_get(event, "pull_request.head.sha"),
               user_login |-> user_login])

\* only the production identity is known
IsOwnComment_prod_only(user_login) == user_login = "packit-as-a-service[bot]"

\* `user_login in {...}`: the comment was written by the service itself
IsOwnComment(user_login) ==
  user_login \in {"packit-as-a-service[bot]", "packit-as-a-service-stg[bot]"}

parse_pull_request_comment_event(event) ==
  LET pr_id == nested_get(event, "issue.number")
      action == Get(event, "action")
      comment == nested_get(event, "comment.body")
      base_repo_namespace == nested_get(event, "issue.user.login")
      base_repo_name == nested_get(event, "repository.name")
      user_login == nested_get(event, "comment.user.login")
  IN  IF ~Truthy(nested_get(event, "issue.pull_request")) THEN NoneR
      ELSE IF action \notin {"created", "edited"} \/ ~Truthy(pr_id) THEN NoneR
      ELSE IF ~(Truthy(base_repo_name) /\ Truthy(base_repo_namespace))
        THEN NoneR
      ELSE IF ~Truthy(user_login) THEN NoneR
      ELSE IF IsOwnComment(user_login) THEN NoneR
      ELSE IF ~HasKey(event, "repository.html_url") THEN Raise("KeyError")
      ELSE Ev("PullRequestCommentGithubEvent",
              [action |-> PullRequestCommentAction[action],
               pr_id |-> pr_id,
               base_repo_namespace |-> base_repo_namespace,
               base_repo_name |-> NoneV,
               base_ref |-> NoneV,
               target_repo_namespace |->
                 nested_get(event, "repository.owner.login"),
               target_repo_name |-> nested_get(event, "repository.name"),
               project_url |-> event["repository.html_url"],
               user_login |-> user_login,
               comment |-> comment])

\* the issue of the comment is not checked for being a pull request
parse_issue_comment_event_any_issue(event) ==
  LET issue_id == nested_get(event, "issue.number")
      action == Get(event, "action")
      comment == nested_get(event, "comment.body")
      user_login == nested_get(event, "comment.user.login")
  IN  IF action # "created" \/ ~Truthy(issue_id) \/ ~Truthy(comment)
        THEN NoneR
      \* a missing repository owner or name is logged, nothing more
      ELSE IF ~Truthy(user_login) THEN NoneR
      ELSE Ev("IssueCommentEvent",
              [action |-> IssueCommentAction[action],
               issue_id |-> issue_id,
               base_repo_namespace |->
                 nested_get(event, "repository.owner.login"),
               base_repo_name |-> nested_get(event, "repository.name"),
               target_repo |-> nested_get(event, "repository.full_name"),
               project_url |-> nested_get(event, "repository.html_url"),
               user_login |-> user_login,
               comment |-> comment])

parse_issue_comment_event(event) ==
  LET issue_id == nested_get(event, "issue.number")
      action == Get(event, "action")
      comment == nested_get(event, "comment.body")
      user_login == nested_get(event, "comment.user.login")
  IN  IF Truthy(nested_get(event, "issue.pull_request")) THEN NoneR
      ELSE IF action # "created" \/ ~Truthy(issue_id) \/ ~Truthy(comment)
        THEN NoneR
      \* a missing repository owner or name is logged, nothing more
      ELSE IF ~Truthy(user_login) THEN NoneR
      ELSE Ev("IssueCommentEvent",
              [action |-> IssueCommentAction[action],
               issue_id |-> issue_id,
               base_repo_namespace |->
                 nested_get(event, "repository.owner.login"),
               base_repo_name |-> nested_get(event, "repository.name"),
               target_repo |-> nested_get(event, "repository.full_name"),
               project_url |-> nested_get(event, "repository.html_url"),
               user_login |-> user_login,
               comment |-> comment])

\* a release is taken whatever was done to it
parse_release_event_any_action(event) ==
  LET action == Get(event, "action")
      repo_namespace == nested_get(event, "repository.owner.login")
      repo_name == nested_get(event, "repository.name")
      release_ref == nested_get(event, "release.tag_name")
  IN  IF ~MappingTruthy(event, "release") THEN NoneR
      ELSE IF ~(Truthy(repo_namespace) /\ Truthy(repo_name)) THEN NoneR
      ELSE IF ~Truthy(release_ref) THEN NoneR
      ELSE IF ~HasKey(event, "repository.html_url") THEN Raise("KeyError")
      ELSE Ev("ReleaseEvent",
              [repo_namespace |-> repo_namespace,
               repo_name |-> repo_name,
               tag_name |-> release_ref,
               project_url |-> event["repository.html_url"]])

parse_release_event(event) ==
  LET action == Get(event, "action")
      repo_namespace == nested_get(event, "repository.owner.login")
      repo_name == nested_get(event, "repository.name")
      release_ref == nested_get(event, "release.tag_name")
  IN  IF action # "published" \/ ~MappingTruthy(event, "release") THEN NoneR
      ELSE IF ~(Truthy(repo_namespace) /\ Truthy(repo_name)) THEN NoneR
      ELSE IF ~Truthy(release_ref) THEN NoneR
      ELSE IF ~HasKey(event, "repository.html_url") THEN Raise("KeyError")
      ELSE Ev("ReleaseEvent",
              [repo_namespace |-> repo_namespace,
               repo_name |-> repo_name,
               tag_name |-> release_ref,
               project_url |-> event["repository.html_url"]])

\* `a or b`
Or(a, b) == IF Truthy(a) THEN a ELSE b

parse_push_event(event) ==
  LET raw_ref == Get(event, "ref")
      before == Get(event, "before")
      pusher == nested_get(event, "pusher.name")
      head_commit ==
        Or(Or(Get(event, "head"), Get(event, "after")),
           Get(event, "head_commit"))
      repo_namespace == nested_get(event, "repository.owner.login")
      repo_name == nested_get(event, "repository.name")
  IN  IF ~(Truthy(raw_ref) /\ Truthy(head_commit) /\ Truthy(before)
           /\ Truthy(pusher)) THEN NoneR
      ELSE IF Truthy(Get(event, "deleted")) THEN NoneR
      \* the commit count (size, else len(commits)) is only logged
      ELSE IF ~(Truthy(repo_namespace) /\ Truthy(repo_name)) THEN NoneR
      ELSE Ev("PushGitHubEvent",
              [repo_namespace |-> repo_namespace,
               repo_name |-> repo_name,
               git_ref |-> SplitRefLast(raw_ref),
               project_url |-> nested_get(event, "repository.html_url"),
               commit_sha |-> head_commit])

\* the entries of a `repositories` list as the payloads carry it: each entry
\* is its full_name, or "?" for an entry without one
ListOf(v) ==
  CASE v = "[foo/bar]" -> <<"foo/bar">>
    [] v = "[foo/bar,foo/baz]" -> <<"foo/bar", "foo/baz">>
    [] v = "[{}]" -> <<"?">>
    [] OTHER -> <<>>

parse_installation_event(event) ==
  LET repositories ==
        Or(Get(event, "repositories"),
           nested_get_default(event, "repositories_added", "[]"))
      repo_names == ListOf(repositories)
      needed == {"installation.id", "installation.account.login",
                 "installation.account.id", "installation.account.url",
                 "installation.account.type", "installation.created_at",
                 "sender.id", "sender.login"}
  IN  IF ~MappingTruthy(event, "installation.account") THEN NoneR
      \* event["action"]
      ELSE IF ~HasKey(event, "action") THEN Raise("KeyError")
      ELSE IF event["action"] \notin {"created", "added"} THEN NoneR
      \* event["installation"]["id"]
      ELSE IF ~HasKey(event, "installation.id") THEN Raise("KeyError")
      \* repo["full_name"] for repo in repositories
      ELSE IF \E i \in 1..Len(repo_names) : repo_names[i] = "?"
        THEN Raise("KeyError")
      \* event['sender'] in the debug message, then the subscripts
      ELSE IF ~MappingTruthy(event, "sender") THEN Raise("KeyError")
      ELSE IF \E p \in needed : ~HasKey(event, p) THEN Raise("KeyError")
      ELSE Ev("InstallationEvent",
              [installation_id |-> event["installation.id"],
               account_login |-> event["installation.account.login"],
               account_id |-> event["installation.account.id"],
               account_url |-> event["installation.account.url"],
               account_type |-> event["installation.account.type"],
               created_at |-> event["installation.created_at"],
               repositories |-> repo_names,
               sender_id |-> event["sender.id"],
               sender_login |-> event["sender.login"]])

(***************************************************************************)
(* External collaborators.  Their answers are fixed for a payload:         *)
(*   env.tf            what TestingFarmJobHelper.get_request_details gives *)
(*                     (a mapping of detail paths; all Absent = no answer) *)
(*   env.tft_test_run  what TFTTestRunModel.get_by_pipeline_id gives       *)
(*   env.copr_build    what the Copr build store holds for the build id    *)
(*   env.projects_to_sync  the configured mirroring rules                  *)
(* A call is recorded by its name in the order it is made.                 *)
(***************************************************************************)
Pure(r) == [res |-> r, calls |-> <<>>]

With(r, c) == [res |-> r, calls |-> c]

DistGitTopic == "org.fedoraproject.prod.git.receive"

CoprStartTopic == "org.fedoraproject.prod.copr.build.start"

CoprEndTopic == "org.fedoraproject.prod.copr.build.end"

KojiTopic == "org.fedoraproject.prod.buildsys.task.state.change"

NoProject == [forge |-> NoneV, repo_namespace |-> NoneV, repo_name |-> NoneV,
              branch |-> NoneV, dg_repo_name |-> NoneV, dg_branch |-> NoneV]

\* the smallest member of a non-empty set of numbers
Min(S) == CHOOSE m \in S : \A n \in S : m <= n

\* the branch is not compared
get_project_to_sync_any_branch(projects_to_sync, dg_repo_name, dg_branch) ==
  LET projects == {i \in 1..Len(projects_to_sync) :
                     projects_to_sync[i].dg_repo_name = dg_repo_name}
  IN  IF projects # {} THEN projects_to_sync[Min(projects)] ELSE NoProject

\* the matching rule configured last
get_project_to_sync_last_match(projects_to_sync, dg_repo_name, dg_branch) ==
  LET projects == {i \in 1..Len(projects_to_sync) :
                     /\ projects_to_sync[i].dg_repo_name = dg_repo_name
                     /\ projects_to_sync[i].dg_branch = dg_branch}
      last == CHOOSE i \in projects : \A j \in projects : j <= i
  IN  IF projects # {} THEN projects_to_sync[last] ELSE NoProject

\* ServiceConfig.get_project_to_sync: the first matching rule, None without
get_project_to_sync(projects_to_sync, dg_repo_name, dg_branch) ==
  LET projects == {i \in 1..Len(projects_to_sync) :
                     /\ projects_to_sync[i].dg_repo_name = dg_repo_name
                     /\ projects_to_sync[i].dg_branch = dg_branch}
  IN  IF projects # {} THEN projects_to_sync[Min(projects)] ELSE NoProject

parse_distgit_commit_event(event, env) ==
  LET topic == Get(event, "topic")
      dg_repo_namespace == nested_get(event, "commit.namespace")
      dg_repo_name == nested_get(event, "commit.repo")
      dg_branch == nested_get(event, "commit.branch")
      dg_rev == nested_get(event, "commit.rev")
      project_to_sync ==
        get_project_to_sync(env.projects_to_sync, dg_repo_name, dg_branch)
      lookup == <<"ServiceConfig.get_service_config",
                  "ServiceConfig.get_project_to_sync">>
  IN  IF topic # DistGitTopic THEN Pure(NoneR)
      ELSE IF ~(Truthy(dg_repo_namespace) /\ Truthy(dg_repo_name))
        THEN Pure(NoneR)
      ELSE IF ~(Truthy(dg_branch) /\ Truthy(dg_rev)) THEN Pure(NoneR)
      ELSE IF project_to_sync = NoProject THEN With(NoneR, lookup)
      ELSE With(Ev("DistGitCommitEvent",
                   [topic |-> topic,
                    repo_namespace |-> project_to_sync.repo_namespace,
                    repo_name |-> project_to_sync.repo_name,
                    branch |-> project_to_sync.branch,
                    project_url |-> <<project_to_sync.forge, "/",
                                      project_to_sync.repo_namespace, "/",
                                      project_to_sync.repo_name>>,
                    dg_repo_namespace |-> dg_repo_namespace,
                    dg_repo_name |-> dg_repo_name,
                    dg_branch |-> dg_branch,
                    dg_rev |-> dg_rev,
                    dg_project_url |-> <<"https://src.fedoraproject.org/",
                                         dg_repo_namespace, "/",
                                         dg_repo_name>>]),
                lookup)

(***************************************************************************)
(* Testing Farm results.                                                   *)
(***************************************************************************)
TestingFarmResult == {"passed", "failed", "error", "running"}

TESTING_FARM_INSTALLABILITY_TEST_URL ==
  "https://gitlab.com/testing-farm/tests"

\* xmltodict.parse of the reports that occur: whether the text is
\* well-formed XML, what sits at testsuites/testsuite/testcase (a list of
\* test-case mappings, a single mapping, or nothing), and per test case its
\* @name, @result and the href of its second log (Absent where missing)
XunitDoc(xunit) ==
  CASE xunit = "<testsuites>2 cases</testsuites>" ->
         [wellformed |-> TRUE, shape |-> "list",
          cases |-> <<[name |-> "t1", result |-> "passed", log |-> "log1"],
                      [name |-> "t2", result |-> "failed", log |-> Absent]>>]
    [] xunit = "<testsuites>1 case</testsuites>" ->
         [wellformed |-> TRUE, shape |-> "dict",
          cases |-> <<[name |-> "t1", result |-> "passed", log |-> "log1"]>>]
    [] xunit = "<testsuites>no name</testsuites>" ->
         [wellformed |-> TRUE, shape |-> "list",
          cases |-> <<[name |-> Absent, result |-> "passed", log |-> Absent],
                      [name |-> "t2", result |-> "passed", log |-> Absent]>>]
    [] xunit = "<testsuites>bad result</testsuites>" ->
         [wellformed |-> TRUE, shape |-> "list",
          cases |-> <<[name |-> "t1", result |-> "skipped", log |-> Absent],
                      [name |-> "t2", result |-> "passed", log |-> Absent]>>]
    [] xunit = "<testsuites>no result</testsuites>" ->
         [wellformed |-> TRUE, shape |-> "list",
          cases |-> <<[name |-> "t1", result |-> Absent, log |-> Absent]>>]
    [] xunit = "<testsuites/>" ->
         [wellformed |-> TRUE, shape |-> "none", cases |-> <<>>]
    [] OTHER -> [wellformed |-> FALSE, shape |-> "none", cases |-> <<>>]

TestResult(name, result, log_url) ==
  [name |-> name, result |-> result, log_url |-> log_url]

\* Parser._parse_tf_result_xunit: the test list, or the exception that
\* leaves the function
parse_tf_result_xunit(xunit) ==
  LET doc == XunitDoc(xunit)
      bad == {i \in 1..Len(doc.cases) :
                \/ doc.cases[i].name = Absent
                \/ doc.cases[i].result = Absent
                \/ doc.cases[i].result \notin TestingFarmResult}
      first == doc.cases[Min(bad)]
  IN  IF ~Truthy(xunit) THEN [exc |-> "", tests |-> <<>>]
      \* xmltodict.parse
      ELSE IF ~doc.wellformed THEN [exc |-> "ExpatError", tests |-> <<>>]
      \* iterating a single test-case mapping yields its keys, and
      \* subscripting a key with "@name" is the TypeError that is caught
      ELSE IF doc.shape = "dict" THEN [exc |-> "", tests |-> <<>>]
      ELSE IF bad # {}
        THEN [exc |-> IF first.name = Absent \/ first.result = Absent
                        THEN "KeyError" ELSE "ValueError",
              tests |-> <<>>]
      ELSE [exc |-> "",
            tests |-> [i \in 1..Len(doc.cases) |->
                         TestResult(doc.cases[i].name, doc.cases[i].result,
                                    IF doc.cases[i].log = Absent THEN ""
                                    ELSE doc.cases[i].log)]]

\* "<build id>:<chroot>".split(":")
ArtifactParts(id) ==
  CASE id = "123:fedora-rawhide-x86_64" -> <<"123", "fedora-rawhide-x86_64">>
    [] OTHER -> <<id>>

\* the mapping get_request_details returned is falsy
NoDetails(tf) == \A p \in DOMAIN tf : tf[p] = Absent

\* the stored test run is not consulted for the commit
results_from_details_fetched_ref(request_id, details, tft_test_run) ==
  LET result == Or(Or(nested_get(details, "result.overall"),
                      Get(details, "state")), "unknown")
      summary == Or(nested_get(details, "result.summary"), "")
      compose ==
        nested_get(details, "environments_requested.0.os.compose")
      xunit == parse_tf_result_xunit(nested_get(details, "result.xunit"))
      fmf_ref == nested_get(details, "test.fmf.ref")
      fmf_url == nested_get(details, "test.fmf.url")
      ref == fmf_ref
      a_type ==
        Get(details, "environments_requested.0.artifacts.0.type")
      a_id == details["environments_requested.0.artifacts.0.id"]
      installability == fmf_url = TESTING_FARM_INSTALLABILITY_TEST_URL
      from_artifact == ~installability /\ a_type = "fedora-copr-build"
      copr_build_id == IF from_artifact THEN ArtifactParts(a_id)[1] ELSE ""
      chroot0 == IF from_artifact THEN ArtifactParts(a_id)[2] ELSE ""
      copr_chroot == IF ~Truthy(chroot0) /\ tft_test_run.found
                       THEN tft_test_run.target ELSE chroot0
      base_project_url == Get(tft_test_run.data, "base_project_url")
      project_url ==
        IF /\ tft_test_run.found
           /\ HasKey(tft_test_run.data, "base_project_url")
           /\ Truthy(base_project_url)
           /\ base_project_url # fmf_url
          THEN base_project_url ELSE fmf_url
  IN  \* TestingFarmResult(value)
      IF result \notin TestingFarmResult THEN Raise("ValueError")
      ELSE IF xunit.exc # "" THEN Raise(xunit.exc)
      \* artifact["id"], then .split(":")[1]
      ELSE IF from_artifact /\ a_id = Absent THEN Raise("KeyError")
      ELSE IF from_artifact /\ Len(ArtifactParts(a_id)) < 2
        THEN Raise("IndexError")
      ELSE Ev("TestingFarmResultsEvent",
              [pipeline_id |-> request_id,
               result |-> result,
               compose |-> compose,
               summary |-> summary,
               log_url |-> <<"http://artifacts.dev.testing-farm.io/",
                             request_id>>,
               copr_build_id |-> copr_build_id,
               copr_chroot |-> copr_chroot,
               tests |-> xunit.tests,
               commit_sha |-> ref,
               project_url |-> project_url])

\* parse_testing_farm_results_event once the details are there: the event
\* built from them and from the stored test run
results_from_details(request_id, details, tft_test_run) ==
  LET result == Or(Or(nested_get(details, "result.overall"),
                      Get(details, "state")), "unknown")
      summary == Or(nested_get(details, "result.summary"), "")
      compose ==
        nested_get(details, "environments_requested.0.os.compose")
      xunit == parse_tf_result_xunit(nested_get(details, "result.xunit"))
      fmf_ref == nested_get(details, "test.fmf.ref")
      fmf_url == nested_get(details, "test.fmf.url")
      ref == IF tft_test_run.found THEN tft_test_run.commit_sha ELSE fmf_ref
      a_type ==
        Get(details, "environments_requested.0.artifacts.0.type")
      a_id == details["environments_requested.0.artifacts.0.id"]
      installability == fmf_url = TESTING_FARM_INSTALLABILITY_TEST_URL
      from_artifact == ~installability /\ a_type = "fedora-copr-build"
      copr_build_id == IF from_artifact THEN ArtifactParts(a_id)[1] ELSE ""
      chroot0 == IF from_artifact THEN ArtifactParts(a_id)[2] ELSE ""
      copr_chroot == IF ~Truthy(chroot0) /\ tft_test_run.found
                       THEN tft_test_run.target ELSE chroot0
      base_project_url == Get(tft_test_run.data, "base_project_url")
      project_url ==
        IF /\ tft_test_run.found
           /\ HasKey(tft_test_run.data, "base_project_url")
           /\ Truthy(base_project_url)
           /\ base_project_url # fmf_url
          THEN base_project_url ELSE fmf_url
  IN  \* TestingFarmResult(value)
      IF result \notin TestingFarmResult THEN Raise("ValueError")
      ELSE IF xunit.exc # "" THEN Raise(xunit.exc)
      \* artifact["id"], then .split(":")[1]
      ELSE IF from_artifact /\ a_id = Absent THEN Raise("KeyError")
      ELSE IF from_artifact /\ Len(ArtifactParts(a_id)) < 2
        THEN Raise("IndexError")
      ELSE Ev("TestingFarmResultsEvent",
              [pipeline_id |-> request_id,
               result |-> result,
               compose |-> compose,
               summary |-> summary,
               log_url |-> <<"http://artifacts.dev.testing-farm.io/",
                             request_id>>,
               copr_build_id |-> copr_build_id,
               copr_chroot |-> copr_chroot,
               tests |-> xunit.tests,
               commit_sha |-> ref,
               project_url |-> project_url])

TFLookups == <<"TFTTestRunModel.get_by_pipeline_id",
               "TestingFarmJobHelper.get_request_details">>

\* a failed fetch is taken for "not mine"
parse_testing_farm_results_event_silent(event, env) ==
  IF Get(event, "source") # "testing-farm"
     \/ ~Truthy(Get(event, "request_id")) THEN Pure(NoneR)
  ELSE IF NoDetails(env.tf) THEN With(NoneR, TFLookups)
  ELSE With(results_from_details(event["request_id"], env.tf,
                                 env.tft_test_run), TFLookups)

parse_testing_farm_results_event(event, env) ==
  IF Get(event, "source") # "testing-farm"
     \/ ~Truthy(Get(event, "request_id")) THEN Pure(NoneR)
  \* "Something's wrong with TF, raise exception so that we can re-try later."
  ELSE IF NoDetails(env.tf) THEN With(Raise("Exception"), TFLookups)
  ELSE With(results_from_details(event["request_id"], env.tf,
                                 env.tft_test_run), TFLookups)

(***************************************************************************)
(* Copr and Koji build messages.                                           *)
(***************************************************************************)
FedmsgTopic == {DistGitTopic, CoprEndTopic, CoprStartTopic,
                "org.fedoraproject.prod.pagure.pull-request.flag.added"}

\* CoprBuildEvent.from_build_id: an instance, or None when the build store
\* has no record of the build
from_build_id(cls, topic, build_id, chroot, status, owner, project_name, pkg, timestamp, build) ==
  IF ~build.found THEN NoneR
  ELSE Ev(cls,
          [topic |-> topic, build_id |-> build_id, build |-> build,
           chroot |-> chroot, status |-> status, owner |-> owner,
           project_name |-> project_name, pkg |-> pkg,
           timestamp |-> timestamp,
           base_repo_name |-> build.repo_name,
           base_repo_namespace |-> build.repo_namespace,
           pr_id |-> build.pr_id, ref |-> build.ref,
           project_url |-> build.https_url,
           commit_sha |-> build.commit_sha])

\* the build is looked up before the topic is checked
parse_copr_event_eager_lookup(event, env) ==
  LET topic == Get(event, "topic")
      copr_build_cls == IF topic = CoprStartTopic THEN "CoprBuildStartEvent"
                        ELSE "CoprBuildEndEvent"
      found == from_build_id(copr_build_cls, topic, Get(event, "build"),
                             Get(event, "chroot"), Get(event, "status"),
                             Get(event, "owner"), Get(event, "copr"),
                             Get(event, "pkg"), Get(event, "timestamp"),
                             env.copr_build)
  IN  IF ~HasKey(event, "build") THEN Pure(NoneR)
      ELSE IF topic \notin {CoprStartTopic, CoprEndTopic}
        THEN With(NoneR, <<"CoprBuildDB.get_build">>)
      ELSE With(found, <<"CoprBuildDB.get_build">>)

parse_copr_event(event, env) ==
  LET topic == Get(event, "topic")
      copr_build_cls == IF topic = CoprStartTopic THEN "CoprBuildStartEvent"
                        ELSE "CoprBuildEndEvent"
  IN  IF topic \notin {CoprStartTopic, CoprEndTopic} THEN Pure(NoneR)
      ELSE With(from_build_id(copr_build_cls, topic, Get(event, "build"),
                              Get(event, "chroot"), Get(event, "status"),
                              Get(event, "owner"), Get(event, "copr"),
                              Get(event, "pkg"), Get(event, "timestamp"),
                              env.copr_build),
                <<"CoprBuildDB.get_build">>)

KojiBuildState == {"FREE", "OPEN", "CLOSED", "CANCELED", "ASSIGNED", "FAILED"}

\* the child tasks of a Koji message, in list order
ChildTasks(v) ==
  CASE v = "[buildArch:11]" -> <<[method |-> "buildArch", id |-> "11"]>>
    [] v = "[tagBuild:10,buildArch:11,buildArch:12]" ->
         <<[method |-> "tagBuild", id |-> "10"],
           [method |-> "buildArch", id |-> "11"],
           [method |-> "buildArch", id |-> "12"]>>
    [] v = "[tagBuild:10]" -> <<[method |-> "tagBuild", id |-> "10"]>>
    [] OTHER -> <<>>

parse_koji_event(event) ==
  LET state == nested_get(event, "info.state")
      children == ChildTasks(nested_get_default(event, "info.children", "[]"))
      arch == {i \in 1..Len(children) : children[i].method = "buildArch"}
  IN  IF Get(event, "topic") # KojiTopic THEN NoneR
      ELSE IF ~Truthy(state) THEN NoneR
      \* KojiBuildState(value)
      ELSE IF HasKey(event, "new") /\ event["new"] \notin KojiBuildState
        THEN Raise("ValueError")
      ELSE IF HasKey(event, "old") /\ event["old"] \notin KojiBuildState
        THEN Raise("ValueError")
      ELSE Ev("KojiBuildEvent",
              [build_id |-> Get(event, "id"),
               state |-> Get(event, "new"),
               old_state |-> Get(event, "old"),
               start_time |-> nested_get(event, "info.start_time"),
               completion_time |-> nested_get(event, "info.completion_time"),
               rpm_build_task_id |->
                 IF arch = {} THEN NoneV ELSE children[Min(arch)].id])

(***************************************************************************)
(* GitLab extractors.                                                      *)
(***************************************************************************)
\* the action of the payload is not looked at
parse_mr_event_action_from_state(event) ==
  LET state == event["object_attributes.state"]
      action0 == nested_get(event, "object_attributes.action")
      action == state
      username == event["user.username"]
      object_id == event["object_attributes.id"]
      object_iid == event["object_attributes.iid"]
      source_project_url ==
        nested_get(event, "object_attributes.source.web_url")
      parsed_source_url == parse_git_repo(source_project_url)
      target_project_url == nested_get(event, "project.web_url")
      parsed_target_url == parse_git_repo(target_project_url)
  IN  IF Get(event, "object_kind") # "merge_request" THEN NoneR
      \* event["object_attributes"]["state"]
      ELSE IF state = Absent THEN Raise("KeyError")
      ELSE IF state # "opened" THEN NoneR
      \* event["user"]["username"]
      ELSE IF username = Absent THEN Raise("KeyError")
      ELSE IF ~Truthy(username) THEN NoneR
      ELSE IF object_id = Absent THEN Raise("KeyError")
      ELSE IF ~Truthy(object_id) THEN NoneR
      ELSE IF object_iid = Absent THEN Raise("KeyError")
      ELSE IF ~Truthy(object_iid) THEN NoneR
      ELSE IF ~Truthy(source_project_url) THEN NoneR
      \* parsed_source_url.namespace of None
      ELSE IF ~parsed_source_url.ok THEN Raise("AttributeError")
      ELSE IF ~Truthy(target_project_url) THEN NoneR
      ELSE IF ~parsed_target_url.ok THEN Raise("AttributeError")
      ELSE Ev("MergeRequestGitlabEvent",
              [action |-> GitlabEventAction[action],
               username |-> username,
               object_id |-> object_id,
               object_iid |-> object_iid,
               source_repo_namespace |-> parsed_source_url.namespace,
               source_repo_name |-> parsed_source_url.repo,
               source_repo_branch |->
                 nested_get(event, "object_attributes.source_branch"),
               target_repo_namespace |-> parsed_target_url.namespace,
               target_repo_name |-> parsed_target_url.repo,
               target_repo_branch |->
                 nested_get(event, "object_attributes.target_branch"),
               project_url |-> target_project_url,
               commit_sha |->
                 nested_get(event, "object_attributes.last_commit.id")])
parse_mr_event(event) ==
  LET state == event["object_attributes.state"]
      action0 == nested_get(event, "object_attributes.action")
      action == IF action0 \notin {"reopen", "update"} THEN state ELSE action0
      username == event["user.username"]
      object_id == event["object_attributes.id"]
      object_iid == event["object_attributes.iid"]
      source_project_url ==
        nested_get(event, "object_attributes.source.web_url")
      parsed_source_url == parse_git_repo(source_project_url)
      target_project_url == nested_get(event, "project.web_url")
      parsed_target_url == parse_git_repo(target_project_url)
  IN  IF Get(event, "object_kind") # "merge_request" THEN NoneR
      \* event["object_attributes"]["state"]
      ELSE IF state = Absent THEN Raise("KeyError")
      ELSE IF state # "opened" THEN NoneR
      \* event["user"]["username"]
      ELSE IF username = Absent THEN Raise("KeyError")
      ELSE IF ~Truthy(username) THEN NoneR
      ELSE IF object_id = Absent THEN Raise("KeyError")
      ELSE IF ~Truthy(object_id) THEN NoneR
      ELSE IF object_iid = Absent THEN Raise("KeyError")
      ELSE IF ~Truthy(object_iid) THEN NoneR
      ELSE IF ~Truthy(source_project_url) THEN NoneR
      \* parsed_source_url.namespace of None
      ELSE IF ~parsed_source_url.ok THEN Raise("AttributeError")
      ELSE IF ~Truthy(target_project_url) THEN NoneR
      ELSE IF ~parsed_target_url.ok THEN Raise("AttributeError")
      ELSE Ev("MergeRequestGitlabEvent",
              [action |-> GitlabEventAction[action],
               username |-> username,
               object_id |-> object_id,
               object_iid |-> object_iid,
               source_repo_namespace |-> parsed_source_url.namespace,
               source_repo_name |-> parsed_source_url.repo,
               source_repo_branch |->
                 nested_get(event, "object_attributes.source_branch"),
               target_repo_namespace |-> parsed_target_url.namespace,
               target_repo_name |-> parsed_target_url.repo,
               target_repo_branch |->
                 nested_get(event, "object_attributes.target_branch"),
               project_url |-> target_project_url,
               commit_sha |->
                 nested_get(event, "object_attributes.last_commit.id")])

parse_merge_request_comment_event(event) ==
  LET state == nested_get(event, "merge_request.state")
      action0 == nested_get(event, "merge_request.action")
      action == IF action0 \notin {"reopen", "update"} THEN state ELSE action0
      source_project_url == nested_get(event, "merge_request.source.web_url")
      parsed_source_url == parse_git_repo(source_project_url)
      target_project_url == nested_get(event, "project.web_url")
      parsed_target_url == parse_git_repo(target_project_url)
      username == nested_get(event, "user.username")
      commit_sha == nested_get(event, "merge_request.last_commit.id")
  IN  IF Get(event, "object_kind") # "note" THEN NoneR
      ELSE IF ~MappingTruthy(event, "merge_request") THEN NoneR
      ELSE IF state # "opened" THEN NoneR
      \* a missing iid or id is logged, nothing more
      ELSE IF ~Truthy(source_project_url) THEN NoneR
      ELSE IF ~parsed_source_url.ok THEN Raise("AttributeError")
      ELSE IF ~Truthy(target_project_url) THEN NoneR
      ELSE IF ~parsed_target_url.ok THEN Raise("AttributeError")
      ELSE IF ~Truthy(username) THEN NoneR
      ELSE IF ~Truthy(commit_sha) THEN NoneR
      ELSE Ev("MergeRequestCommentGitlabEvent",
              [action |-> GitlabEventAction[action],
               object_id |-> nested_get(event, "merge_request.id"),
               object_iid |-> nested_get(event, "merge_request.iid"),
               source_repo_namespace |-> parsed_source_url.namespace,
               source_repo_name |-> parsed_source_url.repo,
               target_repo_namespace |-> parsed_target_url.namespace,
               target_repo_name |-> parsed_target_url.repo,
               project_url |-> target_project_url,
               username |-> username,
               comment |-> nested_get(event, "object_attributes.note"),
               commit_sha |-> commit_sha])

parse_gitlab_issue_comment_event(event) ==
  LET issue_id == nested_get(event, "issue.iid")
      comment == nested_get(event, "object_attributes.note")
      state == nested_get(event, "issue.state")
      action0 == nested_get(event, "object_attributes.action")
      action == IF action0 \notin {"reopen", "update"} THEN state ELSE action0
      project_url == nested_get(event, "project.web_url")
      parsed_url == parse_git_repo(project_url)
      username == nested_get(event, "user.username")
  IN  IF Get(event, "object_kind") # "note" THEN NoneR
      ELSE IF ~MappingTruthy(event, "issue") THEN NoneR
      ELSE IF ~Truthy(issue_id) THEN NoneR
      ELSE IF ~Truthy(comment) THEN NoneR
      ELSE IF ~Truthy(state) THEN NoneR
      ELSE IF state # "opened" THEN NoneR
      ELSE IF ~Truthy(project_url) THEN NoneR
      ELSE IF ~parsed_url.ok THEN Raise("AttributeError")
      ELSE IF ~Truthy(username) THEN NoneR
      ELSE Ev("IssueCommentGitlabEvent",
              [action |-> GitlabEventAction[action],
               issue_id |-> issue_id,
               repo_namespace |-> parsed_url.namespace,
               repo_name |-> parsed_url.repo,
               project_url |-> project_url,
               username |-> username,
               comment |-> comment])

\* the commit ids of a `commits` list, in list order ("?" for an entry
\* without an id)
CommitIds(v) ==
  CASE v = "[c1]" -> <<"c1">>
    [] v = "[c1,c2]" -> <<"c1", "c2">>
    [] v = "[{}]" -> <<"?">>
    [] OTHER -> <<>>

\* only the all-zero commit id counts as a deletion
IsBranchDeletion_exact(after) == after = ZeroSha

\* `after.startswith("0000000")`
IsBranchDeletion(after) == StartsWith(after, SevenZeros)

\* the commit count is required too
gitlab_push_has_required_strict(event) ==
  /\ Truthy(Get(event, "ref")) /\ Truthy(Get(event, "commits"))
  /\ Truthy(Get(event, "before")) /\ Truthy(Get(event, "user_username"))
  /\ Truthy(Get(event, "total_commits_count"))

\* `raw_ref and commits and before and pusher`
gitlab_push_has_required(event) ==
  /\ Truthy(Get(event, "ref")) /\ Truthy(Get(event, "commits"))
  /\ Truthy(Get(event, "before")) /\ Truthy(Get(event, "user_username"))

parse_gitlab_push_event(event) ==
  LET raw_ref == Get(event, "ref")
      ids == CommitIds(Get(event, "commits"))
      after == Get(event, "after")
      project_url == nested_get(event, "project.web_url")
      parsed_url == parse_git_repo(project_url)
  IN  IF Get(event, "object_kind") # "push" THEN NoneR
      ELSE IF ~gitlab_push_has_required(event) THEN NoneR
      \* event.get("after").startswith of None
      ELSE IF after = NoneV THEN Raise("AttributeError")
      ELSE IF IsBranchDeletion(after) THEN NoneR
      \* a missing total_commits_count is logged, nothing more
      \* commits[-1]["id"]
      ELSE IF ids[Len(ids)] = "?" THEN Raise("KeyError")
      ELSE IF ~Truthy(project_url) THEN NoneR
      ELSE IF ~parsed_url.ok THEN Raise("AttributeError")
      ELSE Ev("PushGitlabEvent",
              [repo_namespace |-> parsed_url.namespace,
               repo_name |-> parsed_url.repo,
               git_ref |-> SplitRefLast(raw_ref),
               project_url |-> project_url,
               commit_sha |-> ids[Len(ids)]])

(***************************************************************************)
(* The webhook chain: the extractors in the order Parser.parse_event lists *)
(* them.                                                                   *)
(***************************************************************************)
ChainNames ==
  <<"parse_pr_event", "parse_pull_request_comment_event",
    "parse_issue_comment_event", "parse_release_event", "parse_push_event",
    "parse_installation_event", "parse_distgit_commit_event",
    "parse_testing_farm_results_event", "parse_copr_event", "parse_mr_event",
    "parse_koji_event", "parse_merge_request_comment_event",
    "parse_gitlab_issue_comment_event", "parse_gitlab_push_event">>

ChainLen == Len(ChainNames)

\* parser(event) for the parser at position i of the chain
Extractor(i, event, env) ==
  CASE i = 1 -> Pure(parse_pr_event(event))
    [] i = 2 -> Pure(parse_pull_request_comment_event(event))
    [] i = 3 -> Pure(parse_issue_comment_event(event))
    [] i = 4 -> Pure(parse_release_event(event))
    [] i = 5 -> Pure(parse_push_event(event))
    [] i = 6 -> Pure(parse_installation_event(event))
    [] i = 7 -> parse_distgit_commit_event(event, env)
    [] i = 8 -> parse_testing_farm_results_event(event, env)
    [] i = 9 -> parse_copr_event(event, env)
    [] i = 10 -> Pure(parse_mr_event(event))
    [] i = 11 -> Pure(parse_koji_event(event))
    [] i = 12 -> Pure(parse_merge_request_comment_event(event))
    [] i = 13 -> Pure(parse_gitlab_issue_comment_event(event))
    [] i = 14 -> Pure(parse_gitlab_push_event(event))

(***************************************************************************)
(* CentosEventParser: the topic dispatch of the Pagure message bus.        *)
(***************************************************************************)
\* f"https://{source}/{url_path}"
HttpsUrl(source, url_path) ==
  CASE source = "git.centos.org" /\ url_path = "ns/repo" ->
         "https://git.centos.org/ns/repo"
    [] source = "git.centos.org" /\ url_path = "" -> "https://git.centos.org/"
    [] OTHER -> "https://?"

\* `word in git_topic` for the topic suffixes of the dispatch table
Contains(git_topic, word) ==
  \/ word = "edited" /\ git_topic = "pull-request.comment.edited"
  \/ word = "added" /\ git_topic = "pull-request.comment.added"

\* the comments of a pull request, in list order
Comments(v) ==
  CASE v = "[first,second]" -> <<"first", "second">>
    [] v = "[first]" -> <<"first">>
    [] OTHER -> <<>>

\* an extractor of the dispatch table returns its result and the payload as
\* it leaves it
Kept(r, event) == [res |-> r, event |-> event]

pull_request_event(event, action) ==
  LET needed == {"pullrequest.id", "pullrequest.repo_from.namespace",
                 "pullrequest.repo_from.name",
                 "pullrequest.repo_from.user.name", "pullrequest.branch",
                 "pullrequest.project.name", "pullrequest.project.url_path",
                 "source", "pullrequest.commit_stop", "pullrequest.user.name"}
  IN  IF \E p \in needed : ~HasKey(event, p) THEN Kept(Raise("KeyError"), event)
      ELSE Kept(Ev("PullRequestPagureEvent",
                   [action |-> PullRequestAction[action],
                    pr_id |-> event["pullrequest.id"],
                    base_repo_namespace |->
                      event["pullrequest.repo_from.namespace"],
                    base_repo_name |-> event["pullrequest.repo_from.name"],
                    base_repo_owner |->
                      event["pullrequest.repo_from.user.name"],
                    base_ref |-> event["pullrequest.branch"],
                    target_repo |-> event["pullrequest.project.name"],
                    project_url |->
                      HttpsUrl(event["source"],
                               event["pullrequest.project.url_path"]),
                    commit_sha |-> event["pullrequest.commit_stop"],
                    user_login |-> event["pullrequest.user.name"]]),
                event)

pull_request_comment(event, bound_action) ==
  LET url == HttpsUrl(event["source"], event["pullrequest.project.url_path"])
      stored == [event EXCEPT !["https_url"] = url]
      \* the bound action is overwritten before it is used
      action == PullRequestCommentAction.created
      needed == {"pullrequest.id", "pullrequest.project.namespace",
                 "pullrequest.project.name",
                 "pullrequest.repo_from.user.name",
                 "pullrequest.repo_from.name", "agent",
                 "pullrequest.commit_stop"}
      edited == Contains(event["git_topic"], "edited")
      added == Contains(event["git_topic"], "added")
      comments == Comments(Get(event, "pullrequest.comments"))
  IN  IF ~HasKey(event, "source") \/ ~HasKey(event, "pullrequest.project.url_path")
        THEN Kept(Raise("KeyError"), event)
      ELSE IF \E p \in needed : ~HasKey(stored, p)
        THEN Kept(Raise("KeyError"), stored)
      ELSE IF edited /\ ~HasKey(stored, "comment.comment")
        THEN Kept(Raise("KeyError"), stored)
      ELSE IF ~edited /\ added /\ ~HasKey(stored, "pullrequest.comments")
        THEN Kept(Raise("KeyError"), stored)
      ELSE IF ~edited /\ added /\ comments = <<>>
        THEN Kept(Raise("IndexError"), stored)
      ELSE IF ~edited /\ ~added THEN Kept(Raise("ValueError"), stored)
      ELSE Kept(Ev("PullRequestCommentPagureEvent",
                   [action |-> PullRequestCommentAction[action],
                    pr_id |-> stored["pullrequest.id"],
                    base_repo_namespace |->
                      stored["pullrequest.project.namespace"],
                    base_repo_name |-> stored["pullrequest.project.name"],
                    base_repo_owner |->
                      stored["pullrequest.repo_from.user.name"],
                    base_ref |-> NoneV,
                    target_repo |-> stored["pullrequest.repo_from.name"],
                    project_url |-> url,
                    commit_sha |-> stored["pullrequest.commit_stop"],
                    user_login |-> stored["agent"],
                    comment |-> IF edited THEN stored["comment.comment"]
                                ELSE comments[Len(comments)]]),
                stored)

push_event(event) ==
  LET needed == {"repo.namespace", "repo.name", "branch", "source",
                 "repo.url_path", "end_commit"}
  IN  IF \E p \in needed : ~HasKey(event, p) THEN Kept(Raise("KeyError"), event)
      ELSE Kept(Ev("PushPagureEvent",
                   [repo_namespace |-> event["repo.namespace"],
                    repo_name |-> event["repo.name"],
                    git_ref |-> <<"refs/head/", event["branch"]>>,
                    project_url |->
                      HttpsUrl(event["source"], event["repo.url_path"]),
                    commit_sha |-> event["end_commit"]]),
                event)

\* CentosEventParser.__init__: topic suffix -> the action bound to the
\* extractor ("" for the push extractor, which takes none)
event_mapping ==
  [s \in {"pull-request.new", "pull-request.reopened", "pull-request.updated",
          "pull-request.comment.added", "pull-request.comment.edited",
          "git.receive"} |->
     CASE s = "pull-request.new" -> "opened"
       [] s = "pull-request.reopened" -> "reopened"
       [] s = "pull-request.updated" -> "synchronize"
       [] s = "pull-request.comment.added" -> "added"
       [] s = "pull-request.comment.edited" -> "edited"
       [] s = "git.receive" -> ""]

\* every pull-request topic goes to the pull-request extractor
Dispatch_one_extractor(git_topic, event) ==
  IF git_topic = "git.receive" THEN push_event(event)
  ELSE pull_request_event(event, "opened")

\* self.event_mapping[git_topic](event)
Dispatch(git_topic, event) ==
  CASE git_topic \in {"pull-request.new", "pull-request.reopened",
                      "pull-request.updated"} ->
         pull_request_event(event, event_mapping[git_topic])
    [] git_topic \in {"pull-request.comment.added",
                      "pull-request.comment.edited"} ->
         pull_request_comment(event, event_mapping[git_topic])
    [] git_topic = "git.receive" -> push_event(event)

\* the topic key itself is replaced by its suffix
centos_parse_event_retopic(event) ==
  LET topic == Get(event, "topic")
      parts == Components(topic)
      tagged == [event EXCEPT !["source"] = parts[1], !["topic"] = parts[2],
                              !["git_topic"] = parts[2]]
  IN  IF topic = NoneV THEN Kept(Raise("AttributeError"), event)
      ELSE IF Len(parts) # 2 THEN Kept(Raise("ValueError"), event)
      ELSE IF parts[2] \notin DOMAIN event_mapping THEN Kept(NoneR, tagged)
      ELSE Dispatch(parts[2], tagged)

\* CentosEventParser.parse_event
centos_parse_event(event) ==
  LET topic == Get(event, "topic")
      parts == Components(topic)
      tagged == [event EXCEPT !["source"] = parts[1],
                              !["git_topic"] = parts[2]]
  IN  \* None.split("/")
      IF topic = NoneV THEN Kept(Raise("AttributeError"), event)
      \* source, git_topic = ...
      ELSE IF Len(parts) # 2 THEN Kept(Raise("ValueError"), event)
      ELSE IF parts[2] \notin DOMAIN event_mapping THEN Kept(NoneR, tagged)
      ELSE Dispatch(parts[2], tagged)

(***************************************************************************)
(* Payloads.  Every source has a well-formed payload (its base); the       *)
(* payloads explored are a base with up to MaxDeviations keys removed,     *)
(* emptied or given another value, and the union of two bases.             *)
(***************************************************************************)
PathSeq ==
  <<"action", "number",
    "pull_request.head.repo.owner.login", "pull_request.head.repo.name",
    "pull_request.head.sha", "pull_request.user.login",
    "pull_request.base.repo.owner.login", "pull_request.base.repo.name",
    "repository.html_url", "repository.name", "repository.owner.login",
    "repository.full_name",
    "issue.pull_request", "issue.number", "issue.user.login",
    "comment.body", "comment.user.login",
    "release.tag_name", "release.id",
    "ref", "before", "after", "head", "head_commit", "pusher.name",
    "deleted", "size", "commits",
    "installation.id", "installation.account.login",
    "installation.account.id", "installation.account.url",
    "installation.account.type", "installation.created_at",
    "repositories", "repositories_added", "sender.id", "sender.login",
    "topic", "commit.namespace", "commit.repo", "commit.branch", "commit.rev",
    "source", "request_id",
    "what", "build", "chroot", "status", "owner", "copr", "pkg", "timestamp",
    "id", "info.state", "new", "old", "info.start_time",
    "info.completion_time", "info.children",
    "object_kind", "object_attributes.state", "object_attributes.action",
    "object_attributes.id", "object_attributes.iid",
    "object_attributes.source.web_url", "object_attributes.source_branch",
    "object_attributes.target_branch", "object_attributes.last_commit.id",
    "object_attributes.note", "user.username", "project.web_url",
    "merge_request.state", "merge_request.action", "merge_request.iid",
    "merge_request.id", "merge_request.source.web_url",
    "merge_request.last_commit.id", "issue.iid", "issue.state",
    "user_username", "total_commits_count",
    "pullrequest.id", "pullrequest.repo_from.namespace",
    "pullrequest.repo_from.name", "pullrequest.repo_from.user.name",
    "pullrequest.branch", "pullrequest.project.name",
    "pullrequest.project.url_path", "pullrequest.project.namespace",
    "pullrequest.commit_stop", "pullrequest.user.name",
    "pullrequest.comments", "agent", "comment.comment", "git_topic",
    "https_url", "repo.namespace", "repo.name", "repo.url_path", "branch",
    "end_commit", "zen">>

Paths == {PathSeq[i] : i \in 1..Len(PathSeq)}

\* the payload with exactly the given keys
Payload(keys) == [p \in Paths |-> IF p \in DOMAIN keys THEN keys[p] ELSE Absent]

\* `not event`
IsEmpty(event) == \A p \in Paths : event[p] = Absent

GithubRepository ==
  "repository.html_url" :> "https://github.com/foo/bar"
  @@ "repository.name" :> "bar" @@ "repository.owner.login" :> "foo"
  @@ "repository.full_name" :> "foo/bar"

GithubComment ==
  "action" :> "created" @@ "issue.number" :> "7"
  @@ "issue.user.login" :> "foo" @@ "comment.body" :> "/packit build"
  @@ "comment.user.login" :> "alice" @@ GithubRepository

GitlabProject ==
  "project.web_url" :> "https://gitlab.com/ns/repo"
  @@ "user.username" :> "alice"

PagurePullRequest ==
  "pullrequest.id" :> "7" @@ "pullrequest.repo_from.namespace" :> "forks"
  @@ "pullrequest.repo_from.name" :> "repo"
  @@ "pullrequest.repo_from.user.name" :> "alice"
  @@ "pullrequest.branch" :> "main" @@ "pullrequest.project.name" :> "repo"
  @@ "pullrequest.project.url_path" :> "ns/repo"
  @@ "pullrequest.project.namespace" :> "ns"
  @@ "pullrequest.commit_stop" :> "4b825dc642cb6eb9"
  @@ "pullrequest.user.name" :> "alice"

\* the sources of the webhook chain, in chain order, then the payload no
\* extractor knows
WebhookFamilies ==
  <<"pr", "pr-comment", "issue-comment", "release", "push", "installation",
    "dist-git", "testing-farm", "copr", "gitlab-mr", "koji",
    "gitlab-mr-comment", "gitlab-issue-comment", "gitlab-push", "ping">>

CentosFamilies ==
  <<"pagure-pr", "pagure-comment-added", "pagure-comment-edited",
    "pagure-push">>

\* the keys and values of a well-formed payload of each source
BaseKeys(f) ==
  CASE f = "pr" ->
         "action" :> "opened" @@ "number" :> "7"
         @@ "pull_request.head.repo.owner.login" :> "fork"
         @@ "pull_request.head.repo.name" :> "bar"
         @@ "pull_request.head.sha" :> "4b825dc642cb6eb9"
         @@ "pull_request.user.login" :> "alice"
         @@ "pull_request.base.repo.owner.login" :> "foo"
         @@ "pull_request.base.repo.name" :> "bar"
         @@ GithubRepository
    [] f = "pr-comment" -> "issue.pull_request" :> "{url}" @@ GithubComment
    [] f = "issue-comment" -> GithubComment
    [] f = "release" ->
         "action" :> "published" @@ "release.tag_name" :> "1.2.3"
         @@ "release.id" :> "1" @@ GithubRepository
    [] f = "push" ->
         "ref" :> "refs/heads/main" @@ "before" :> ZeroSha
         @@ "after" :> "4b825dc642cb6eb9" @@ "pusher.name" :> "alice"
         @@ "size" :> "1" @@ "commits" :> "[c1]" @@ GithubRepository
    [] f = "installation" ->
         "action" :> "created" @@ "installation.id" :> "1"
         @@ "installation.account.login" :> "foo"
         @@ "installation.account.id" :> "2"
         @@ "installation.account.url" :> "https://api.github.com/users/foo"
         @@ "installation.account.type" :> "User"
         @@ "installation.created_at" :> "1567090283"
         @@ "repositories" :> "[foo/bar]"
         @@ "sender.id" :> "3" @@ "sender.login" :> "alice"
    [] f = "dist-git" ->
         "topic" :> DistGitTopic @@ "commit.namespace" :> "rpms"
         @@ "commit.repo" :> "bar" @@ "commit.branch" :> "master"
         @@ "commit.rev" :> "4b825dc642cb6eb9"
    [] f = "testing-farm" ->
         "source" :> "testing-farm" @@ "request_id" :> "req-1"
    [] f = "copr" ->
         "topic" :> CoprEndTopic @@ "what" :> "build end" @@ "build" :> "123"
         @@ "chroot" :> "fedora-rawhide-x86_64" @@ "status" :> "1"
         @@ "owner" :> "packit" @@ "copr" :> "foo-bar-7" @@ "pkg" :> "bar"
         @@ "timestamp" :> "1567090283"
    [] f = "gitlab-mr" ->
         "object_kind" :> "merge_request"
         @@ "object_attributes.state" :> "opened"
         @@ "object_attributes.action" :> "open"
         @@ "object_attributes.id" :> "70" @@ "object_attributes.iid" :> "7"
         @@ "object_attributes.source.web_url" :>
              "https://gitlab.com/fork/repo"
         @@ "object_attributes.source_branch" :> "feature"
         @@ "object_attributes.target_branch" :> "main"
         @@ "object_attributes.last_commit.id" :> "4b825dc642cb6eb9"
         @@ GitlabProject
    [] f = "koji" ->
         "topic" :> KojiTopic @@ "id" :> "45" @@ "info.state" :> "1"
         @@ "new" :> "OPEN" @@ "old" :> "FREE"
         @@ "info.start_time" :> "1567090283"
         @@ "info.children" :> "[tagBuild:10,buildArch:11,buildArch:12]"
    [] f = "gitlab-mr-comment" ->
         "object_kind" :> "note" @@ "merge_request.state" :> "opened"
         @@ "merge_request.iid" :> "7" @@ "merge_request.id" :> "70"
         @@ "merge_request.source.web_url" :> "https://gitlab.com/fork/repo"
         @@ "merge_request.last_commit.id" :> "4b825dc642cb6eb9"
         @@ "object_attributes.note" :> "/packit build" @@ GitlabProject
    [] f = "gitlab-issue-comment" ->
         "object_kind" :> "note" @@ "issue.iid" :> "7"
         @@ "issue.state" :> "opened"
         @@ "object_attributes.note" :> "/packit build" @@ GitlabProject
    [] f = "gitlab-push" ->
         "object_kind" :> "push" @@ "ref" :> "refs/heads/main"
         @@ "before" :> ZeroSha @@ "after" :> "4b825dc642cb6eb9"
         @@ "user_username" :> "alice" @@ "commits" :> "[c1,c2]"
         @@ "total_commits_count" :> "2"
         @@ "project.web_url" :> "https://gitlab.com/ns/repo"
    [] f = "ping" -> "zen" :> "Keep it logically awesome."
    [] f = "pagure-pr" ->
         "topic" :> "git.centos.org/pull-request.new" @@ "agent" :> "alice"
         @@ PagurePullRequest
    [] f = "pagure-comment-added" ->
         "topic" :> "git.centos.org/pull-request.comment.added"
         @@ "agent" :> "alice" @@ "pullrequest.comments" :> "[first,second]"
         @@ PagurePullRequest
    [] f = "pagure-comment-edited" ->
         "topic" :> "git.centos.org/pull-request.comment.edited"
         @@ "agent" :> "alice" @@ "comment.comment" :> "second"
         @@ "pullrequest.comments" :> "[first,second]" @@ PagurePullRequest
    [] f = "pagure-push" ->
         "topic" :> "git.centos.org/git.receive" @@ "agent" :> "alice"
         @@ "repo.namespace" :> "ns" @@ "repo.name" :> "repo"
         @@ "repo.url_path" :> "ns/repo" @@ "branch" :> "main"
         @@ "end_commit" :> "4b825dc642cb6eb9"

\* keys a payload of the source may carry besides those of its base
OptionalKeys(f) ==
  CASE f = "push" -> {"deleted", "head", "head_commit"}
    [] f = "installation" -> {"repositories_added"}
    [] f = "gitlab-mr-comment" -> {"merge_request.action"}
    [] OTHER -> {}

Families ==
  {WebhookFamilies[i] : i \in 1..Len(WebhookFamilies)}
    \cup {CentosFamilies[i] : i \in 1..Len(CentosFamilies)}

\* the keys a payload of each source can carry
FamilyKeysOf == [f \in Families |-> DOMAIN BaseKeys(f) \cup OptionalKeys(f)]

FamilyKeys(f) == FamilyKeysOf[f]

\* the well-formed payload of each source
BaseOf == [f \in Families |-> Payload(BaseKeys(f))]

Base(f) == BaseOf[f]

\* what a key can hold instead of its base value: nothing, an empty value,
\* or another value of the vocabulary of that key
OtherValues(p) ==
  CASE p = "action" -> {"closed", "edited"}
    [] p = "comment.user.login" ->
         {"packit-as-a-service[bot]", "packit-as-a-service-stg[bot]"}
    [] p = "deleted" -> {"True", "False"}
    [] p = "after" -> {ZeroSha, "0000000a1b2c3d4e"}
    [] p \in {"head", "head_commit"} -> {"4b825dc642cb6eb9"}
    [] p = "ref" -> {"refs/heads/feature/x"}
    [] p = "commits" -> {"[]", "[{}]"}
    [] p \in {"repositories", "repositories_added"} -> {"[foo/bar,foo/baz]"}
    [] p = "topic" ->
         {CoprStartTopic, "org.fedoraproject.prod.pagure.pull-request.flag.added",
          "git.centos.org/pull-request.reopened",
          "git.centos.org/pull-request.updated",
          "git.centos.org/pull-request.tag.added", "git.centos.org/a/b"}
    [] p = "source" -> {"github"}
    [] p \in {"object_attributes.state", "merge_request.state", "issue.state"} ->
         {"closed", "merged"}
    [] p \in {"object_attributes.action", "merge_request.action"} ->
         {"reopen", "update"}
    [] p \in {"new", "old"} -> {"CLOSED", "7"}
    [] p = "status" -> {"99"}
    [] p = "info.state" -> {"0"}
    [] p = "info.children" -> {"[tagBuild:10]"}
    [] p \in {"project.web_url", "object_attributes.source.web_url",
              "merge_request.source.web_url"} -> {"not a url"}
    [] p = "commit.branch" -> {"f33"}
    [] p = "commit.repo" -> {"baz"}
    [] p = "pullrequest.comments" -> {"[]"}
    [] OTHER -> {}

Alternatives(p) == {Absent, ""} \cup OtherValues(p)

\* the ways to change at most n of the keys PathSeq[from..] of a payload,
\* restricted to the keys in `keys`: sequences of <<position, new value>>
\* with increasing positions
RECURSIVE Changes(_, _, _, _)
Changes(base, keys, from, n) ==
  {<<>>} \cup
    IF n = 0 THEN {}
    ELSE UNION {
           {<<<<i, v>>>> \o rest :
              v \in Alternatives(PathSeq[i]) \ {base[PathSeq[i]]},
              rest \in Changes(base, keys, i + 1, n - 1)}
           : i \in {j \in from..Len(PathSeq) : PathSeq[j] \in keys} }

\* the payload after the changes
Changed(base, changes) ==
  [p \in Paths |->
     IF \E k \in 1..Len(changes) : PathSeq[changes[k][1]] = p
       THEN LET k == CHOOSE k \in 1..Len(changes) : PathSeq[changes[k][1]] = p
            IN  changes[k][2]
       ELSE base[p]]

\* a payload of source f: its base with at most MaxDeviations keys changed
IsPayloadOf(payload, f) ==
  \E changes \in Changes(Base(f), FamilyKeys(f), 1, MaxDeviations) :
    payload = Changed(Base(f), changes)

\* a payload with the keys of two sources: those of f, and those of g that
\* f does not have
Merge(f, g) == Payload(BaseKeys(f) @@ BaseKeys(g))

Range(seq) == {seq[i] : i \in 1..Len(seq)}

IsWebhookPayload(payload) ==
  \/ \E f \in Range(WebhookFamilies) : IsPayloadOf(payload, f)
  \/ \E f, g \in Range(WebhookFamilies) : payload = Merge(f, g)
  \/ payload = Payload(<<>>)

IsCentosPayload(payload) ==
  \E f \in Range(CentosFamilies) : IsPayloadOf(payload, f)

(***************************************************************************)
(* The answers of the collaborators.                                       *)
(***************************************************************************)
TFPaths ==
  {"result.overall", "state", "result.summary", "result.xunit",
   "test.fmf.ref", "test.fmf.url", "environments_requested.0.os.compose",
   "environments_requested.0.artifacts.0.type",
   "environments_requested.0.artifacts.0.id"}

Details(keys) ==
  [p \in TFPaths |-> IF p \in DOMAIN keys THEN keys[p] ELSE Absent]

TFBase ==
  "result.overall" :> "passed" @@ "state" :> "complete"
  @@ "result.summary" :> "all good"
  @@ "result.xunit" :> "<testsuites>2 cases</testsuites>"
  @@ "test.fmf.ref" :> "master"
  @@ "test.fmf.url" :> "https://github.com/fork/bar"
  @@ "environments_requested.0.os.compose" :> "Fedora-Rawhide"
  @@ "environments_requested.0.artifacts.0.type" :> "fedora-copr-build"
  @@ "environments_requested.0.artifacts.0.id" :> "123:fedora-rawhide-x86_64"

\* the details of a finished run with another test report
WithReport(xunit) == Details([TFBase EXCEPT !["result.xunit"] = xunit])

\* the details of a request: none (the fetch failed), those of a finished
\* run, of a run in progress, of an installability test, and of finished
\* runs whose report is not a well-formed list of test cases
TFAnswers ==
  {Details(<<>>), Details(TFBase),
   WithReport("<testsuites"),
   WithReport("<testsuites>1 case</testsuites>"),
   WithReport("<testsuites>no name</testsuites>"),
   WithReport("<testsuites>no result</testsuites>"),
   WithReport("<testsuites>bad result</testsuites>"),
   Details("state" :> "running" @@ "test.fmf.ref" :> "master"
           @@ "test.fmf.url" :> "https://github.com/fork/bar"),
   Details("result.overall" :> "failed"
           @@ "test.fmf.url" :> TESTING_FARM_INSTALLABILITY_TEST_URL)}

NoRun == [found |-> FALSE, commit_sha |-> NoneV, target |-> NoneV,
          data |-> ("base_project_url" :> Absent)]

TestRuns ==
  {NoRun,
   [found |-> TRUE, commit_sha |-> "4b825dc642cb6eb9",
    target |-> "fedora-33-x86_64",
    data |-> ("base_project_url" :> "https://github.com/foo/bar")],
   [found |-> TRUE, commit_sha |-> "4b825dc642cb6eb9",
    target |-> "fedora-33-x86_64", data |-> ("base_project_url" :> Absent)]}

NoBuild == [found |-> FALSE, repo_name |-> NoneV, repo_namespace |-> NoneV,
            pr_id |-> NoneV, ref |-> NoneV, https_url |-> NoneV,
            commit_sha |-> NoneV]

Builds ==
  {NoBuild,
   [found |-> TRUE, repo_name |-> "bar", repo_namespace |-> "foo",
    pr_id |-> "7", ref |-> "4b825dc642cb6eb9",
    https_url |-> "https://github.com/foo/bar",
    commit_sha |-> "4b825dc642cb6eb9"]}

ProjectToSync(forge, repo_namespace, repo_name, branch, dg_repo_name, dg_branch) ==
  [forge |-> forge, repo_namespace |-> repo_namespace,
   repo_name |-> repo_name, branch |-> branch,
   dg_repo_name |-> dg_repo_name, dg_branch |-> dg_branch]

Rules ==
  {ProjectToSync("https://github.com", "foo", "bar", "master", "bar",
                 "master"),
   ProjectToSync("https://github.com", "other", "bar", "main", "bar",
                 "master"),
   ProjectToSync("https://github.com", "foo", "baz", "master", "baz",
                 "master")}

RuleLists == UNION {[1..n -> Rules] : n \in 0..MaxRules}

Env(tf, tft_test_run, copr_build, projects_to_sync) ==
  [tf |-> tf, tft_test_run |-> tft_test_run, copr_build |-> copr_build,
   projects_to_sync |-> projects_to_sync]

\* the answers a payload can meet; a collaborator no extractor would ask
\* about this payload keeps one fixed answer
EnvsFor(event) ==
  LET asks_tf == HasKey(event, "source") /\ HasKey(event, "request_id")
      asks_rules == Get(event, "topic") = DistGitTopic
      asks_copr == Get(event, "topic") \in {CoprStartTopic, CoprEndTopic}
  IN  {Env(tf, run, build, rules) :
         tf \in IF asks_tf THEN TFAnswers ELSE {Details(TFBase)},
         run \in IF asks_tf THEN TestRuns ELSE {NoRun},
         build \in IF asks_copr THEN Builds ELSE {NoBuild},
         rules \in IF asks_rules THEN RuleLists ELSE {<<>>}}

(***************************************************************************)
(* The state machine: a payload is handed to one of the two parsers,       *)
(* MaxRuns times.  Parser.parse_event evaluates the chain one extractor at *)
(* a time (map() is lazy); CentosEventParser.parse_event is one dispatch.  *)
(***************************************************************************)
VARIABLES
  parser,          \* "Parser" or "CentosEventParser"
  event,           \* the payload
  env,             \* the answers of the collaborators
  service_config,  \* ServiceConfig.service_config: NoneV until loaded
  pc,              \* "start", "chain" or "done"
  idx,             \* position in the chain of the extractor to evaluate next
  result,          \* what parse_event returned or raised, once done
  evaluated,       \* the extractors evaluated in this run, in order
  calls,           \* the collaborator calls made in this run, in order
  run,             \* number of the current run
  outcomes,        \* the results of the completed earlier runs
  obj,             \* an event object of service/events.py: its class and __dict__
  heap,            \* the lists, dicts and TestResult objects that exist, by address
  dumps,           \* the mappings get_dict has returned, in order
  clock,           \* the host's time: epoch seconds and the local UTC offset
  edits,           \* how often the event object was mutated
  forge,           \* what the collaborators of an event answer
  returns,         \* the accessor calls made on events, with what they returned
  MAP_COMMENT_ACTION_TO_HANDLER,  \* the action registry
  registered,      \* the registrations made, in order
  config_file,     \* what the service's config file holds
  cls_service_config,  \* ServiceConfig.service_config: 0 for None, else an instance
  instances,       \* the ServiceConfig instances made, by identity
  returned,        \* the instances get_service_config has returned
  threads          \* each worker's position and local variables

parserVars == <<parser, event, env, service_config, pc, idx, result,
                evaluated, calls, run, outcomes>>

eventVars == <<obj, heap, dumps, clock, edits, forge, returns>>

registryVars == <<MAP_COMMENT_ACTION_TO_HANDLER, registered>>

workerVars == <<config_file, cls_service_config, instances, returned, threads>>

vars == <<parserVars, eventVars, registryVars, workerVars>>

\* no worker runs
NoWorkers ==
  /\ config_file = <<>> /\ cls_service_config = 0 /\ instances = <<>>
  /\ returned = {} /\ threads = <<>>

\* no event object is under study
NoEventObject ==
  /\ obj = [cls |-> "", exc |-> "", dict |-> <<>>,
            created_at |-> [none |-> TRUE]]
  /\ heap = <<>> /\ dumps = <<>>
  /\ clock = [time |-> 0, utcoffset |-> 0] /\ edits = 0
  /\ forge = <<>> /\ returns = <<>>

\* the registry as the module defines it
EmptyRegistry == MAP_COMMENT_ACTION_TO_HANDLER = <<>> /\ registered = <<>>

\* no payload is being parsed
NoParse ==
  /\ parser = NoneV /\ event = <<>> /\ env = <<>> /\ service_config = NoneV
  /\ pc = "idle" /\ idx = 0 /\ result = NoneV /\ evaluated = <<>>
  /\ calls = <<>> /\ run = 0 /\ outcomes = <<>>

Pending == [kind |-> "pending", tag |-> "", fields |-> <<>>]

Init ==
  /\ \/ parser = "Parser" /\ IsWebhookPayload(event)
     \/ parser = "CentosEventParser" /\ IsCentosPayload(event)
  /\ env \in EnvsFor(event)
  /\ service_config = NoneV
  /\ pc = "start"
  /\ idx = 0
  /\ result = Pending
  /\ evaluated = <<>>
  /\ calls = <<>>
  /\ run = 1
  /\ outcomes = <<>>
  /\ NoEventObject
  /\ EmptyRegistry
  /\ NoWorkers

\* Parser.parse_event up to the chain: an empty payload returns None
ParseEventEnter ==
  /\ pc = "start" /\ parser = "Parser"
  /\ IF IsEmpty(event)
       THEN pc' = "done" /\ result' = NoneR /\ idx' = idx
       ELSE pc' = "chain" /\ result' = result /\ idx' = 1
  /\ UNCHANGED <<parser, event, env, service_config, evaluated, calls, run,
                 outcomes>>
  /\ UNCHANGED <<eventVars, registryVars, workerVars>>

\* every extractor is applied before the results are looked at: an event
\* does not end the loop
ParseEventStep_eager ==
  /\ pc = "chain" /\ idx <= ChainLen
  /\ LET r == Extractor(idx, event, env)
     IN  /\ evaluated' = Append(evaluated, ChainNames[idx])
         /\ calls' = calls \o r.calls
         /\ service_config' =
              IF "ServiceConfig.get_service_config" \in Range(r.calls)
                THEN "loaded" ELSE service_config
         /\ IF r.res.kind = "raise" \/ (IsEvent(r.res) /\ idx = ChainLen)
              THEN pc' = "done" /\ result' = r.res /\ idx' = idx
              ELSE /\ pc' = pc /\ idx' = idx + 1
                   /\ result' = IF IsEvent(r.res) THEN r.res ELSE result
  /\ UNCHANGED <<parser, event, env, run, outcomes>>
  /\ UNCHANGED <<eventVars, registryVars, workerVars>>

\* one turn of the loop: the next extractor is applied; its exception
\* leaves parse_event, its event is returned, anything else moves on
ParseEventStep ==
  /\ pc = "chain" /\ idx <= ChainLen
  /\ LET r == Extractor(idx, event, env)
     IN  /\ evaluated' = Append(evaluated, ChainNames[idx])
         /\ calls' = calls \o r.calls
         /\ service_config' =
              IF "ServiceConfig.get_service_config" \in Range(r.calls)
                THEN "loaded" ELSE service_config
         /\ IF r.res.kind = "raise" \/ IsEvent(r.res)
              THEN pc' = "done" /\ result' = r.res /\ idx' = idx
              ELSE pc' = pc /\ result' = result /\ idx' = idx + 1
  /\ UNCHANGED <<parser, event, env, run, outcomes>>
  /\ UNCHANGED <<eventVars, registryVars, workerVars>>

\* the chain is exhausted: "We don't process this event."
ParseEventExhausted ==
  /\ pc = "chain" /\ idx = ChainLen + 1
  /\ pc' = "done" /\ result' = NoneR
  /\ UNCHANGED <<parser, event, env, service_config, idx, evaluated, calls,
                 run, outcomes>>
  /\ UNCHANGED <<eventVars, registryVars, workerVars>>

CentosParseEvent ==
  /\ pc = "start" /\ parser = "CentosEventParser"
  /\ LET r == centos_parse_event(event)
     IN  /\ event' = r.event
         /\ result' = r.res
  /\ pc' = "done"
  /\ UNCHANGED <<parser, env, service_config, idx, evaluated, calls, run,
                 outcomes>>
  /\ UNCHANGED <<eventVars, registryVars, workerVars>>

\* the caller hands the same payload object to the parser once more
ParseAgain ==
  /\ pc = "done" /\ run < MaxRuns
  /\ outcomes' = Append(outcomes, result)
  /\ run' = run + 1
  /\ pc' = "start" /\ idx' = 0 /\ result' = Pending
  /\ evaluated' = <<>> /\ calls' = <<>>
  /\ UNCHANGED <<parser, event, env, service_config>>
  /\ UNCHANGED <<eventVars, registryVars, workerVars>>

Next ==
  \/ ParseEventEnter
  \/ ParseEventStep
  \/ ParseEventExhausted
  \/ CentosParseEvent
  \/ ParseAgain

Spec == Init /\ [][Next]_vars

(***************************************************************************)
(* The canonical events of service/events.py.  A field holds a string, a   *)
(* number, None, an enumeration member, a datetime, or a reference to a    *)
(* list, a dict or a TestResult object of the heap.                        *)
(***************************************************************************)
\* how many instants (epoch seconds 0..MaxInstant) a created_at can denote
MaxInstant == 2

\* how many times get_dict is called on one event
MaxDumps == 2

\* how many times the event is mutated after its construction
MaxEdits == 2

\* how many seconds pass while the event exists
MaxTicks == 1

Str(s) == [str |-> s]

Num(n) == [int |-> n]

\* a float: its whole part and its microseconds
Float(whole, micro) == [whole |-> whole, micro |-> micro]

\* the text "1970-01-01T00:00:0<t><suffix>"
Iso(t, suffix) == [iso |-> t, suffix |-> suffix]

NoneO == [none |-> TRUE]

Ref(addr) == [ref |-> addr]

\* the member `name` of the enumeration `enum`
Member(enum, name) == [enum |-> enum, name |-> name]

\* datetime: the wall-clock reading, and its UTC offset when it is aware
Datetime(wall, micro, aware, utcoffset) ==
  [wall |-> wall, micro |-> micro, aware |-> aware, utcoffset |-> utcoffset]

IsNone(v) == "none" \in DOMAIN v

IsStr(v) == "str" \in DOMAIN v \/ "iso" \in DOMAIN v

IsNumber(v) == "int" \in DOMAIN v \/ "whole" \in DOMAIN v

IsMember(v) == "enum" \in DOMAIN v

IsRef(v) == "ref" \in DOMAIN v

\* bool(v) of a constructor argument
TruthyO(v) ==
  CASE IsNone(v) -> FALSE
    [] "int" \in DOMAIN v -> v.int # 0
    [] "whole" \in DOMAIN v -> v.whole # 0 \/ v.micro # 0
    [] "str" \in DOMAIN v -> v.str # ""
    [] OTHER -> TRUE

\* packit.config.JobTriggerType
JobTriggerType ==
  [release |-> "release", pull_request |-> "pull_request",
   comment |-> "comment", installation |-> "installation",
   commit |-> "commit", testing_farm_results |-> "testing_farm_results"]

WhitelistStatus ==
  [approved_automatically |-> "approved_automatically", waiting |-> "waiting",
   approved_manually |-> "approved_manually"]

\* FedmsgTopic, name -> value
FedmsgTopicMembers ==
  [dist_git_push |-> DistGitTopic, copr_build_finished |-> CoprEndTopic,
   copr_build_started |-> CoprStartTopic,
   pr_flag_added |-> "org.fedoraproject.prod.pagure.pull-request.flag.added"]

TestingFarmResultMembers ==
  [passed |-> "passed", failed |-> "failed", error |-> "error",
   running |-> "running"]

Enums ==
  [JobTriggerType |-> JobTriggerType, PullRequestAction |-> PullRequestAction,
   PullRequestCommentAction |-> PullRequestCommentAction,
   IssueCommentAction |-> IssueCommentAction,
   WhitelistStatus |-> WhitelistStatus, FedmsgTopic |-> FedmsgTopicMembers,
   TestingFarmResult |-> TestingFarmResultMembers]

\* member.value
EnumValue(m) == Str(Enums[m.enum][m.name])

\* Enum(value): the member with that value, ValueError without one
ByValue(enum, value) ==
  LET names == {n \in DOMAIN Enums[enum] : Enums[enum][n] = value}
  IN  IF names = {} THEN [exc |-> "ValueError", member |-> NoneO]
      ELSE [exc |-> "", member |-> Member(enum, CHOOSE n \in names : TRUE)]

\* datetime.fromtimestamp(n, timezone.utc)
fromtimestamp(n) ==
  IF "int" \in DOMAIN n THEN Datetime(n.int, 0, TRUE, 0)
  ELSE Datetime(n.whole, n.micro, TRUE, 0)

\* str.replace("Z", "+00:00") on the text of a timestamp
ReplaceZ(s) ==
  IF "iso" \in DOMAIN s /\ s.suffix = "Z" THEN Iso(s.iso, "+00:00") ELSE s

\* datetime.fromisoformat: aware for a text with an offset, naive without
fromisoformat(s) ==
  IF "iso" \notin DOMAIN s THEN [exc |-> "ValueError", dt |-> NoneO]
  ELSE CASE s.suffix = "+00:00" ->
              [exc |-> "", dt |-> Datetime(s.iso, 0, TRUE, 0)]
         [] s.suffix = "+01:00" ->
              [exc |-> "", dt |-> Datetime(s.iso, 0, TRUE, 3600)]
         [] s.suffix = "" ->
              [exc |-> "", dt |-> Datetime(s.iso, 0, FALSE, 0)]
         [] OTHER -> [exc |-> "ValueError", dt |-> NoneO]

\* datetime.now(): the local wall-clock reading, naive
now(clk) == Datetime(clk.time + clk.utcoffset, 0, FALSE, 0)

\* datetime.timestamp(): a naive datetime is taken for local time
timestamp(dt, clk) ==
  Float(dt.wall - (IF dt.aware THEN dt.utcoffset ELSE clk.utcoffset),
        dt.micro)

\* int(float) of a non-negative float
int(f) == Num(f.whole)

\* Event.__init__: the fields set, or the exception that leaves it
Event_init(trigger, created_at, clk) ==
  LET set(dt) == [exc |-> "", dict |-> ("trigger" :> trigger @@ "created_at" :> dt)]
  IN  IF TruthyO(created_at)
        THEN IF IsNumber(created_at) THEN set(fromtimestamp(created_at))
             ELSE IF IsStr(created_at)
               THEN LET parsed == fromisoformat(ReplaceZ(created_at))
                    IN  IF parsed.exc # ""
                          THEN [exc |-> parsed.exc, dict |-> <<>>]
                          ELSE set(parsed.dt)
             \* neither branch assigns created_at
             ELSE [exc |-> "", dict |-> ("trigger" :> trigger)]
      ELSE set(now(clk))

\* a subclass constructor: the fields of the base, then its own (a later
\* assignment to the same attribute replaces the earlier one)
Extend(base, own) ==
  IF base.exc # "" THEN base ELSE [exc |-> "", dict |-> own @@ base.dict]

AbstractGithubEvent_init(trigger, project_url, clk) ==
  Extend(Event_init(trigger, NoneO, clk), "project_url" :> project_url)

ReleaseEvent(a, clk) ==
  Extend(AbstractGithubEvent_init(Member("JobTriggerType", "release"),
                                  a.https_url, clk),
         [repo_namespace |-> a.repo_namespace, repo_name |-> a.repo_name,
          tag_name |-> a.tag_name])

PullRequestEvent(a, clk) ==
  Extend(AbstractGithubEvent_init(Member("JobTriggerType", "pull_request"),
                                  a.https_url, clk),
         [action |-> a.action, pr_id |-> a.pr_id,
          base_repo_namespace |-> a.base_repo_namespace,
          base_repo_name |-> a.base_repo_name, base_ref |-> a.base_ref,
          target_repo |-> a.target_repo, commit_sha |-> a.commit_sha,
          github_login |-> a.github_login])

PullRequestCommentEvent(a, clk) ==
  Extend(AbstractGithubEvent_init(Member("JobTriggerType", "comment"),
                                  a.https_url, clk),
         [action |-> a.action, pr_id |-> a.pr_id,
          base_repo_namespace |-> a.base_repo_namespace,
          base_repo_name |-> a.base_repo_name, base_ref |-> a.base_ref,
          commit_sha |-> a.commit_sha, target_repo |-> a.target_repo,
          github_login |-> a.github_login, comment |-> a.comment])

IssueCommentEvent(a, clk) ==
  Extend(AbstractGithubEvent_init(Member("JobTriggerType", "comment"),
                                  a.https_url, clk),
         [action |-> a.action, issue_id |-> a.issue_id,
          base_repo_namespace |-> a.base_repo_namespace,
          base_repo_name |-> a.base_repo_name, base_ref |-> a.base_ref,
          tag_name |-> a.tag_name, target_repo |-> a.target_repo,
          github_login |-> a.github_login, comment |-> a.comment])

InstallationEvent(a, clk) ==
  Extend(Event_init(Member("JobTriggerType", "installation"), a.created_at,
                    clk),
         [installation_id |-> a.installation_id,
          account_login |-> a.account_login, account_id |-> a.account_id,
          account_url |-> a.account_url, account_type |-> a.account_type,
          repositories |-> a.repositories, sender_id |-> a.sender_id,
          sender_login |-> a.sender_login, status |-> a.status])

DistGitEvent(a, clk) ==
  Extend(Event_init(Member("JobTriggerType", "commit"), NoneO, clk),
         [topic |-> a.topic, repo_namespace |-> a.repo_namespace,
          repo_name |-> a.repo_name, ref |-> a.ref, branch |-> a.branch,
          msg_id |-> a.msg_id, project_url |-> a.project_url])

TestingFarmResultsEvent(a, clk) ==
  Extend(AbstractGithubEvent_init(
           Member("JobTriggerType", "testing_farm_results"), a.https_url, clk),
         [pipeline_id |-> a.pipeline_id, result |-> a.result,
          environment |-> a.environment, message |-> a.message,
          log_url |-> a.log_url, copr_repo_name |-> a.copr_repo_name,
          copr_chroot |-> a.copr_chroot, tests |-> a.tests,
          repo_name |-> a.repo_name, repo_namespace |-> a.repo_namespace,
          ref |-> a.ref, commit_sha |-> a.commit_sha])

\* dict.get(key) of a dict of the heap
DictGet(d, key) == IF key \in DOMAIN d.items THEN d.items[key] ELSE NoneO

CoprBuildEvent(a, build, clk) ==
  LET topic == ByValue("FedmsgTopic", a.topic.str)
  IN  IF topic.exc # "" THEN [exc |-> topic.exc, dict |-> <<>>]
      ELSE Extend(AbstractGithubEvent_init(Member("JobTriggerType", "commit"),
                                           NoneO, clk),
                  [topic |-> topic.member, build_id |-> a.build_id,
                   build |-> a.build, chroot |-> a.chroot,
                   status |-> a.status, owner |-> a.owner,
                   project_name |-> a.project_name,
                   base_repo_name |-> DictGet(build, "repo_name"),
                   base_repo_namespace |-> DictGet(build, "repo_namespace"),
                   pr_id |-> DictGet(build, "pr_id"),
                   ref |-> DictGet(build, "ref"),
                   project_url |-> DictGet(build, "https_url"),
                   commit_sha |-> DictGet(build, "commit_sha")])

Classes ==
  {"Event", "ReleaseEvent", "PullRequestEvent", "PullRequestCommentEvent",
   "IssueCommentEvent", "InstallationEvent", "DistGitEvent",
   "TestingFarmResultsEvent", "CoprBuildEvent"}

\* cls(**a), the mutable arguments being objects of the heap h
New(cls, a, h, clk) ==
  CASE cls = "Event" -> Event_init(a.trigger, a.created_at, clk)
    [] cls = "ReleaseEvent" -> ReleaseEvent(a, clk)
    [] cls = "PullRequestEvent" -> PullRequestEvent(a, clk)
    [] cls = "PullRequestCommentEvent" -> PullRequestCommentEvent(a, clk)
    [] cls = "IssueCommentEvent" -> IssueCommentEvent(a, clk)
    [] cls = "InstallationEvent" -> InstallationEvent(a, clk)
    [] cls = "DistGitEvent" -> DistGitEvent(a, clk)
    [] cls = "TestingFarmResultsEvent" -> TestingFarmResultsEvent(a, clk)
    [] cls = "CoprBuildEvent" -> CoprBuildEvent(a, h[a.build.ref], clk)

\* the attribute each class converts on top of Event.get_dict
OwnEnumField(cls) ==
  CASE cls \in {"PullRequestEvent", "PullRequestCommentEvent",
                "IssueCommentEvent"} -> {"action"}
    [] cls = "InstallationEvent" -> {"status"}
    [] cls \in {"DistGitEvent", "CoprBuildEvent"} -> {"topic"}
    [] cls = "TestingFarmResultsEvent" -> {"result"}
    [] OTHER -> {}

RECURSIVE deepcopy(_, _)
RECURSIVE CopyItems(_, _, _)
\* copy.copy: the copy refers to the same objects
copy_shallow(h, v) == [heap |-> h, v |-> v]

\* copy.deepcopy of a value: immutable values are shared, a list, dict or
\* object is copied into a new object whose items are copies
deepcopy(h, v) ==
  IF ~IsRef(v) THEN [heap |-> h, v |-> v]
  ELSE LET o == h[v.ref]
           c == CopyItems(h, o.items, DOMAIN o.items)
       IN  [heap |-> Append(c.heap, [kind |-> o.kind, items |-> c.items]),
            v |-> Ref(Len(c.heap) + 1)]

\* the items of a container copied one after the other
CopyItems(h, items, todo) ==
  IF todo = {} THEN [heap |-> h, items |-> items]
  ELSE LET k == CHOOSE k \in todo : TRUE
           c == deepcopy(h, items[k])
       IN  CopyItems(c.heap, [items EXCEPT ![k] = c.v], todo \ {k})

\* the mapping is stamped with the time of the call
get_dict_stamped(cls, dict, h, clk) ==
  LET c == CopyItems(h, dict, DOMAIN dict)
  IN  [exc |-> "", heap |-> c.heap,
       d |-> [k \in DOMAIN dict |->
                IF k = "trigger" \/ k \in OwnEnumField(cls)
                  THEN EnumValue(c.items[k])
                ELSE IF k = "created_at" THEN Num(clk.time)
                ELSE c.items[k]]]

\* falsy attributes are left out
get_dict_sparse(cls, dict, h, clk) ==
  LET c == CopyItems(h, dict, DOMAIN dict)
      kept == {k \in DOMAIN dict : TruthyO(dict[k])}
  IN  [exc |-> "", heap |-> c.heap,
       d |-> [k \in kept |->
                IF k = "trigger" \/ k \in OwnEnumField(cls)
                  THEN EnumValue(c.items[k])
                ELSE IF k = "created_at" THEN int(timestamp(c.items[k], clk))
                ELSE c.items[k]]]

\* get_dict of the class: Event.get_dict, then the conversion of the class
get_dict(cls, dict, h, clk) ==
  LET c == CopyItems(h, dict, DOMAIN dict)
  IN  IF "created_at" \notin DOMAIN dict
        THEN [exc |-> "KeyError", heap |-> c.heap, d |-> <<>>]
      ELSE [exc |-> "", heap |-> c.heap,
            d |-> [k \in DOMAIN dict |->
                     IF k = "trigger" \/ k \in OwnEnumField(cls)
                       THEN EnumValue(c.items[k])
                     ELSE IF k = "created_at"
                       THEN int(timestamp(c.items[k], clk))
                     ELSE c.items[k]]]

RECURSIVE Resolve(_, _)
\* a value with the references in it followed: what the value holds
Resolve(h, v) ==
  IF ~IsRef(v) THEN v
  ELSE [kind |-> h[v.ref].kind,
        items |-> [k \in DOMAIN h[v.ref].items |->
                     Resolve(h, h[v.ref].items[k])]]

\* a mapping with the references in it followed
ResolveAll(h, d) == [k \in DOMAIN d |-> Resolve(h, d[k])]

(***************************************************************************)
(* The arguments events are constructed with.                              *)
(***************************************************************************)
Instants == 0..MaxInstant

\* what is passed as created_at: nothing, epoch seconds as int or float, a
\* float with a fraction, an ISO-8601 text with "Z", with an offset or
\* without one, an empty text, a text that is no timestamp
CreatedAtInputs ==
  {NoneO, Str(""), Str("yesterday")}
    \cup {Num(t) : t \in Instants}
    \cup {Float(t, m) : t \in Instants, m \in {0, 500000}}
    \cup {Iso(t, x) : t \in Instants, x \in {"Z", "+00:00", "+01:00", ""}}

GithubArgs ==
  [https_url |-> Str("https://github.com/foo/bar"),
   base_repo_namespace |-> Str("foo"), base_repo_name |-> Str("bar"),
   target_repo |-> Str("foo/bar"), github_login |-> Str("alice"),
   commit_sha |-> Str("4b825dc642cb6eb9"), pr_id |-> Num(7)]

MembersOf(enum) == {Member(enum, n) : n \in DOMAIN Enums[enum]}

\* the reports a test-results event is built with: name and result of each
\* test
TestLists ==
  {<<>>, <<[name |-> "t1", result |-> "passed"]>>,
   <<[name |-> "t1", result |-> "passed"],
     [name |-> "t2", result |-> "failed"]>>}

RepositoryLists == {<<>>, <<"foo/bar", "foo/baz">>}

\* the records of the Copr build store
BuildRecords ==
  {[repo_name |-> Str("bar"), repo_namespace |-> Str("foo"),
    pr_id |-> Num(7), ref |-> Str("4b825dc642cb6eb9"),
    https_url |-> Str("https://github.com/foo/bar"),
    commit_sha |-> Str("4b825dc642cb6eb9")],
   [repo_name |-> Str("bar"), repo_namespace |-> Str("foo")]}

\* the keyword arguments of each class; lists and dicts are given by their
\* content
ArgsOf(cls) ==
  CASE cls = "Event" ->
         {[trigger |-> Member("JobTriggerType", "release"), created_at |-> c] :
            c \in CreatedAtInputs}
    [] cls = "ReleaseEvent" ->
         {[https_url |-> GithubArgs.https_url, repo_namespace |-> Str("foo"),
           repo_name |-> Str("bar"), tag_name |-> Str("1.2.3")]}
    [] cls = "PullRequestEvent" ->
         {GithubArgs @@ [action |-> m, base_ref |-> Str("4b825dc642cb6eb9")] :
            m \in MembersOf("PullRequestAction")}
    [] cls = "PullRequestCommentEvent" ->
         {GithubArgs @@ [action |-> m, base_ref |-> NoneO,
                         comment |-> Str("/packit build")] :
            m \in MembersOf("PullRequestCommentAction")}
    [] cls = "IssueCommentEvent" ->
         {GithubArgs @@ [action |-> m, issue_id |-> Num(3),
                         tag_name |-> Str(""), base_ref |-> Str("master"),
                         comment |-> Str("/packit propose-update")] :
            m \in MembersOf("IssueCommentAction")}
    [] cls = "InstallationEvent" ->
         {[installation_id |-> Num(1), account_login |-> Str("foo"),
           account_id |-> Num(2), account_url |-> Str("https://api/foo"),
           account_type |-> Str("User"), created_at |-> c,
           repositories |-> r, sender_id |-> Num(3),
           sender_login |-> Str("alice"),
           status |-> Member("WhitelistStatus", "waiting")] :
            c \in CreatedAtInputs, r \in RepositoryLists}
    [] cls = "DistGitEvent" ->
         {[topic |-> Member("FedmsgTopic", "dist_git_push"),
           repo_namespace |-> Str("rpms"), repo_name |-> Str("bar"),
           ref |-> Str("4b825dc642cb6eb9"), branch |-> Str("master"),
           msg_id |-> Str("2020-1"),
           project_url |-> Str("https://src.fedoraproject.org/rpms/bar")]}
    [] cls = "TestingFarmResultsEvent" ->
         {[https_url |-> GithubArgs.https_url, pipeline_id |-> Str("p1"),
           result |-> m, environment |-> Str("Fedora-Rawhide"),
           message |-> Str("all good"), log_url |-> Str("http://logs/p1"),
           copr_repo_name |-> Str("foo-bar-7"),
           copr_chroot |-> Str("fedora-rawhide-x86_64"), tests |-> t,
           repo_namespace |-> Str("foo"), repo_name |-> Str("bar"),
           ref |-> Str("4b825dc642cb6eb9"),
           commit_sha |-> Str("4b825dc642cb6eb9")] :
            m \in {Member("TestingFarmResult", "passed"),
                   Member("TestingFarmResult", "failed")},
            t \in TestLists}
    [] cls = "CoprBuildEvent" ->
         {[topic |-> Str(t), build_id |-> Num(123), build |-> b,
           chroot |-> Str("fedora-rawhide-x86_64"), status |-> Num(1),
           owner |-> Str("packit"), project_name |-> Str("foo-bar-7")] :
            t \in {CoprStartTopic, CoprEndTopic, KojiTopic},
            b \in BuildRecords}

\* the caller's lists, dicts and TestResult objects put on the heap, and the
\* arguments referring to them
Allocate(cls, a) ==
  CASE cls = "InstallationEvent" ->
         [heap |-> <<[kind |-> "list",
                      items |-> [i \in 1..Len(a.repositories) |->
                                   Str(a.repositories[i])]]>>,
          a |-> [a EXCEPT !.repositories = Ref(1)]]
    [] cls = "TestingFarmResultsEvent" ->
         LET n == Len(a.tests)
         IN  [heap |->
                [i \in 1..n |->
                   [kind |-> "TestResult",
                    items |-> [name |-> Str(a.tests[i].name),
                               result |-> Member("TestingFarmResult",
                                                 a.tests[i].result),
                               log_url |-> Str("")]]]
                \o <<[kind |-> "list", items |-> [i \in 1..n |-> Ref(i)]]>>,
              a |-> [a EXCEPT !.tests = Ref(n + 1)]]
    [] cls = "CoprBuildEvent" ->
         [heap |-> <<[kind |-> "dict", items |-> a.build]>>,
          a |-> [a EXCEPT !.build = Ref(1)]]
    [] OTHER -> [heap |-> <<>>, a |-> a]

(***************************************************************************)
(* The life of one event object: it is constructed, serialized with        *)
(* get_dict and mutated, in any order, while time passes.                  *)
(***************************************************************************)
\* obj also keeps the created_at argument the constructor was given
NoObject == [cls |-> "", exc |-> "", dict |-> <<>>, created_at |-> NoneO]

Constructed == obj.cls # "" /\ obj.exc = ""

EventInit ==
  /\ NoParse
  /\ EmptyRegistry /\ NoWorkers
  /\ obj = NoObject /\ heap = <<>> /\ dumps = <<>> /\ edits = 0
  /\ clock \in {[time |-> 1000, utcoffset |-> o] : o \in {0, 3600}}
  /\ forge = <<>> /\ returns = <<>>

\* cls(...)
Construct ==
  /\ obj.cls = ""
  /\ \E cls \in Classes : \E a \in ArgsOf(cls) :
       LET al == Allocate(cls, a)
           r == New(cls, al.a, al.heap, clock)
       IN  /\ obj' = [cls |-> cls, exc |-> r.exc, dict |-> r.dict,
                       created_at |-> IF "created_at" \in DOMAIN a
                                        THEN a.created_at ELSE NoneO]
           /\ heap' = al.heap
  /\ UNCHANGED <<dumps, clock, edits, forge, returns,
                 parserVars, registryVars, workerVars>>

\* event.get_dict(); the mapping is kept with the attributes the event had,
\* the number of mutations made before the call and the time of the call
GetDict ==
  /\ Constructed /\ Len(dumps) < MaxDumps
  /\ LET r == get_dict(obj.cls, obj.dict, heap, clock)
     IN  /\ heap' = r.heap
         /\ dumps' = Append(dumps, [exc |-> r.exc, d |-> r.d,
                                    fields |-> DOMAIN obj.dict,
                                    edits |-> edits, time |-> clock.time])
  /\ UNCHANGED <<obj, clock, edits, forge, returns,
                 parserVars, registryVars, workerVars>>

\* an attribute is assigned after construction: get_package_config fills in
\* base_ref or tag_name
SetAttribute ==
  /\ Constructed /\ edits < MaxEdits
  /\ \E k \in DOMAIN obj.dict \cap {"base_ref", "tag_name"} :
       \E v \in {Str("f33"), Str("1.2.4")} :
         /\ obj.dict[k] # v
         /\ obj' = [obj EXCEPT !.dict[k] = v]
  /\ edits' = edits + 1
  /\ UNCHANGED <<heap, dumps, clock, forge, returns,
                 parserVars, registryVars, workerVars>>

\* the objects a value reaches: itself if it is a reference, and the
\* objects its items refer to
Reach(h, v) ==
  IF ~IsRef(v) THEN {}
  ELSE {v.ref} \cup {h[v.ref].items[k].ref :
                       k \in {j \in DOMAIN h[v.ref].items :
                                IsRef(h[v.ref].items[j])}}

\* a list, dict or TestResult the event refers to is changed in place: a
\* list loses its last item or gains one, a dict entry or a test's result
\* is overwritten
MutateInPlace ==
  /\ Constructed /\ edits < MaxEdits
  /\ \E k \in DOMAIN obj.dict : \E addr \in Reach(heap, obj.dict[k]) :
       LET o == heap[addr]
           changed ==
             CASE o.kind = "list" ->
                    IF Len(o.items) > 0
                      THEN SubSeq(o.items, 1, Len(o.items) - 1)
                      ELSE <<Str("foo/new")>>
               [] o.kind = "dict" -> [o.items EXCEPT !["repo_name"] = Str("baz")]
               [] o.kind = "TestResult" ->
                    [o.items EXCEPT
                       !["result"] = Member("TestingFarmResult", "error")]
       IN  heap' = [heap EXCEPT ![addr] = [kind |-> o.kind, items |-> changed]]
  /\ edits' = edits + 1
  /\ UNCHANGED <<obj, dumps, clock, forge, returns,
                 parserVars, registryVars, workerVars>>

\* a second passes
Tick ==
  /\ obj.cls # "" /\ clock.time < 1000 + MaxTicks
  /\ clock' = [clock EXCEPT !.time = @ + 1]
  /\ UNCHANGED <<obj, heap, dumps, edits, forge, returns,
                 parserVars, registryVars, workerVars>>

EventNext ==
  \/ Construct
  \/ GetDict
  \/ SetAttribute
  \/ MutateInPlace
  \/ Tick

EventSpec == EventInit /\ [][EventNext]_vars

(***************************************************************************)
(* The accessors of an event: pre_check, get_project and                   *)
(* get_package_config, and the collaborators they ask.                     *)
(***************************************************************************)
\* accessor calls made on one event
MaxCalls == 3

\* what the collaborators answer: the releases of the project (latest
\* first), the refs at which the repository has a packaging config, the
\* source branch of the pull request, and the Copr build store's record
Forges ==
  [releases : {<<>>, <<"1.2.4", "1.2.3">>},
   configs : {{}, {"1.2.4", "feature"},
              {"1.2.3", "1.2.4", "4b825dc642cb6eb9", "feature"}},
   source_branch : {"feature"},
   build : {[found |-> FALSE, record |-> <<>>]}
           \cup {[found |-> TRUE, record |-> b] : b \in BuildRecords}]

\* Event.pre_check, and CoprBuildEvent.pre_check: `not self.build`
pre_check_always(cls, dict, h) == TRUE

pre_check(cls, dict, h) ==
  IF cls = "CoprBuildEvent" THEN DOMAIN h[dict.build.ref].items # {}
  ELSE TRUE

\* service_config.get_project(url): a project for a URL, None without one
config_get_project(url) == IF IsNone(url) THEN NoneO ELSE [project |-> url.str]

\* the classes that define get_project, or inherit it from
\* AbstractGithubEvent or DistGitEvent
get_project(cls, dict) ==
  IF cls \in {"Event", "InstallationEvent"}
    THEN [exc |-> "NotImplementedError", project |-> NoneO]
  ELSE [exc |-> "", project |-> config_get_project(dict.project_url)]

\* packit.config.get_package_config_from_repo(project, ref): the config of
\* the repository at the ref, None when it has none there
get_package_config_from_repo(frg, project, ref) ==
  IF IsStr(ref) /\ ref.str \in frg.configs
    THEN [config |-> ref.str, upstream_project_url |-> NoneO]
  ELSE NoneO

\* the tail the overrides share: load, return None without a config, else
\* set upstream_project_url
LoadFor(frg, dict, ref) ==
  LET package_config ==
        get_package_config_from_repo(frg, get_project("", dict).project, ref)
  IN  IF IsNone(package_config) THEN NoneO
      ELSE [package_config EXCEPT !.upstream_project_url = dict.project_url]

\* cls.get_package_config(self): the exception or the value returned, and
\* the attributes of the event afterwards
get_package_config(cls, dict, frg) ==
  CASE cls \in {"Event", "InstallationEvent"} ->
         [exc |-> "NotImplementedError", value |-> NoneO, dict |-> dict]
    [] cls = "ReleaseEvent" ->
         [exc |-> "", value |-> LoadFor(frg, dict, dict.tag_name), dict |-> dict]
    [] cls = "PullRequestEvent" ->
         [exc |-> "", value |-> LoadFor(frg, dict, dict.base_ref), dict |-> dict]
    [] cls = "PullRequestCommentEvent" ->
         LET base_ref == IF TruthyO(dict.base_ref) THEN dict.base_ref
                         ELSE Str(frg.source_branch)
         IN  [exc |-> "", value |-> LoadFor(frg, dict, base_ref),
              dict |-> [dict EXCEPT !.base_ref = base_ref]]
    [] cls = "IssueCommentEvent" ->
         LET tag_name == IF frg.releases # <<>> THEN Str(frg.releases[1])
                         ELSE dict.tag_name
         IN  [exc |-> "", value |-> LoadFor(frg, dict, tag_name),
              dict |-> [dict EXCEPT !.tag_name = tag_name]]
    [] cls = "DistGitEvent" ->
         [exc |-> "",
          value |-> get_package_config_from_repo(
                      frg, get_project(cls, dict).project, dict.ref),
          dict |-> dict]
    [] cls = "TestingFarmResultsEvent" ->
         [exc |-> "", value |-> LoadFor(frg, dict, dict.ref), dict |-> dict]
    [] cls = "CoprBuildEvent" ->
         [exc |-> "",
          value |-> IF IsNone(get_project(cls, dict).project) THEN NoneO
                    ELSE LoadFor(frg, dict, dict.ref),
          dict |-> dict]

\* the arguments of the events handed to the accessors: those of ArgsOf,
\* and a Copr build event made with an empty build record
HandledArgs(cls) ==
  IF cls = "CoprBuildEvent"
    THEN {[topic |-> Str(CoprEndTopic), build_id |-> Num(123), build |-> b,
           chroot |-> Str("fedora-rawhide-x86_64"), status |-> Num(1),
           owner |-> Str("packit"), project_name |-> Str("foo-bar-7")] :
            b \in BuildRecords \cup {<<>>}}
  ELSE IF cls \in {"Event", "InstallationEvent"}
    THEN {a \in ArgsOf(cls) : IsNone(a.created_at) \/ a.created_at = Num(1)}
  ELSE ArgsOf(cls)

\* a call and what came of it, with the attributes the event had
Returned_of(method, cls, self, exc, value) ==
  [method |-> method, cls |-> cls, self |-> self, exc |-> exc, value |-> value]

AccessorInit ==
  /\ NoParse /\ EmptyRegistry /\ NoWorkers
  /\ obj = NoObject /\ heap = <<>> /\ dumps = <<>> /\ edits = 0
  /\ clock = [time |-> 1000, utcoffset |-> 0]
  /\ forge \in Forges /\ returns = <<>>

\* cls(...)
ConstructEvent ==
  /\ obj.cls = "" /\ returns = <<>>
  /\ \E cls \in Classes : \E a \in HandledArgs(cls) :
       LET al == Allocate(cls, a)
           r == New(cls, al.a, al.heap, clock)
       IN  /\ obj' = [cls |-> cls, exc |-> r.exc, dict |-> r.dict,
                       created_at |-> IF "created_at" \in DOMAIN a
                                        THEN a.created_at ELSE NoneO]
           /\ heap' = al.heap
  /\ UNCHANGED <<dumps, clock, edits, forge, returns, parserVars,
                 registryVars, workerVars>>

\* CoprBuildEvent.from_build_id: None when the build store has no record of
\* the build, else the event made with the record
FromBuildId ==
  /\ obj.cls = "" /\ returns = <<>>
  /\ IF ~forge.build.found
       THEN /\ returns' = <<Returned_of("from_build_id", "CoprBuildEvent",
                                        <<>>, "", NoneO)>>
            /\ UNCHANGED <<obj, heap>>
       ELSE LET a == [topic |-> Str(CoprEndTopic), build_id |-> Num(123),
                      build |-> forge.build.record,
                      chroot |-> Str("fedora-rawhide-x86_64"),
                      status |-> Num(1), owner |-> Str("packit"),
                      project_name |-> Str("foo-bar-7")]
                al == Allocate("CoprBuildEvent", a)
                r == New("CoprBuildEvent", al.a, al.heap, clock)
            IN  /\ obj' = [cls |-> "CoprBuildEvent", exc |-> r.exc,
                           dict |-> r.dict, created_at |-> NoneO]
                /\ heap' = al.heap
                /\ returns' = <<Returned_of("from_build_id", "CoprBuildEvent",
                                            <<>>, "", Ref(1))>>
  /\ UNCHANGED <<dumps, clock, edits, forge, parserVars, registryVars, workerVars>>

\* event.pre_check()
PreCheck ==
  /\ Constructed /\ Len(returns) < MaxCalls
  /\ returns' = Append(returns,
                       Returned_of("pre_check", obj.cls, obj.dict, "",
                                   [bool |-> pre_check(obj.cls, obj.dict, heap)]))
  /\ UNCHANGED <<obj, heap, dumps, clock, edits, forge, parserVars,
                 registryVars, workerVars>>

\* event.get_project()
GetProject ==
  /\ Constructed /\ Len(returns) < MaxCalls
  /\ LET r == get_project(obj.cls, obj.dict)
     IN  returns' = Append(returns,
                           Returned_of("get_project", obj.cls, obj.dict,
                                       r.exc, r.project))
  /\ UNCHANGED <<obj, heap, dumps, clock, edits, forge, parserVars,
                 registryVars, workerVars>>

\* event.get_package_config()
GetPackageConfig ==
  /\ Constructed /\ Len(returns) < MaxCalls
  /\ LET r == get_package_config(obj.cls, obj.dict, forge)
     IN  /\ returns' = Append(returns,
                              Returned_of("get_package_config", obj.cls,
                                          obj.dict, r.exc, r.value))
         /\ obj' = [obj EXCEPT !.dict = r.dict]
  /\ UNCHANGED <<heap, dumps, clock, edits, forge, parserVars, registryVars, workerVars>>

AccessorNext ==
  \/ ConstructEvent
  \/ FromBuildId
  \/ PreCheck
  \/ GetProject
  \/ GetPackageConfig

AccessorSpec == AccessorInit /\ [][AccessorNext]_vars

(***************************************************************************)
(* The action registry of worker/handlers/comment_action_handler.py.       *)
(***************************************************************************)
\* registrations made at load time
MaxRegistrations == 3

CommentAction ==
  [copr_build |-> "copr-build", propose_update |-> "propose-update",
   test |-> "test", build |-> "build"]

CommentActions == {Member("CommentAction", n) : n \in DOMAIN CommentAction}

\* handler classes, each with the type it declares
Handlers ==
  {[kls |-> "CoprBuildHandler", type |-> Member("CommentAction", "copr_build")],
   [kls |-> "SecondCoprBuildHandler", type |-> Member("CommentAction", "copr_build")],
   [kls |-> "TestingFarmHandler", type |-> Member("CommentAction", "test")]}

\* d[key] = value of a dict
SetItem(d, key, value) ==
  [k \in DOMAIN d \cup {key} |-> IF k = key THEN value ELSE d[k]]

add_to_comment_action_mapping(map, kls) == SetItem(map, kls.type, kls)

add_to_comment_action_mapping_with_name_and_type(map, name, kls) ==
  SetItem(SetItem(map, name, kls), kls.type, kls)

add_to_comment_action_mapping_with_name(map, name, kls) ==
  SetItem(map, name, kls)

RegistryInit == NoParse /\ NoEventObject /\ EmptyRegistry /\ NoWorkers

\* @add_to_comment_action_mapping on a handler class
Register ==
  /\ Len(registered) < MaxRegistrations
  /\ \E kls \in Handlers :
       /\ MAP_COMMENT_ACTION_TO_HANDLER' =
            add_to_comment_action_mapping(MAP_COMMENT_ACTION_TO_HANDLER, kls)
       /\ registered' =
            Append(registered, [decorator |-> "add_to_comment_action_mapping",
                                name |-> NoneO, kls |-> kls])
  /\ UNCHANGED <<parserVars, eventVars, workerVars>>

\* @add_to_comment_action_mapping_with_name(name=...) on a handler class
RegisterWithName ==
  /\ Len(registered) < MaxRegistrations
  /\ \E kls \in Handlers, name \in CommentActions :
       /\ MAP_COMMENT_ACTION_TO_HANDLER' =
            add_to_comment_action_mapping_with_name(
              MAP_COMMENT_ACTION_TO_HANDLER, name, kls)
       /\ registered' =
            Append(registered,
                   [decorator |-> "add_to_comment_action_mapping_with_name",
                    name |-> name, kls |-> kls])
  /\ UNCHANGED <<parserVars, eventVars, workerVars>>

RegistryNext ==
  \/ Register
  \/ RegisterWithName

RegistrySpec == RegistryInit /\ [][RegistryNext]_vars

(***************************************************************************)
(* Workers sharing ServiceConfig.service_config.  Each worker parses       *)
(* dist-git messages; get_service_config is a check of the class           *)
(* attribute, a load of the file, an assignment and a return, and workers  *)
(* interleave between these steps.                                         *)
(***************************************************************************)
\* the concurrent workers
MaxWorkers == 2
\* the messages one worker parses
MaxRequests == 2

Workers == 1..MaxWorkers

Unreadable == "<unreadable>"

\* the projects_to_sync of ~/.config/packit-service.yaml, or no readable file
ConfigFiles ==
  {Unreadable, <<>>,
   <<ProjectToSync("https://github.com", "foo", "bar", "master", "bar",
                   "master")>>,
   <<ProjectToSync("https://github.com", "other", "bar", "main", "bar",
                   "master"),
     ProjectToSync("https://github.com", "foo", "bar", "master", "bar",
                   "master")>>}

\* ServiceConfig.get_from_dict: a new instance with the rules of the mapping
get_from_dict(raw_dict) == [projects_to_sync |-> raw_dict]

Idle == [pc |-> "idle", loaded_config |-> <<>>, config |-> 0,
         project |-> NoProject, exc |-> "", done |-> 0]

WorkerInit ==
  /\ NoParse /\ NoEventObject /\ EmptyRegistry
  /\ config_file \in ConfigFiles
  /\ cls_service_config = 0
  /\ instances = <<>>
  /\ returned = {}
  /\ threads = [w \in Workers |-> Idle]

\* a worker takes a dist-git message and comes to the call of
\* ServiceConfig.get_service_config()
StartParse ==
  \E w \in Workers :
    /\ threads[w].pc = "idle" /\ threads[w].done < MaxRequests
    /\ threads' = [threads EXCEPT ![w].pc = "check", ![w].exc = "",
                                  ![w].project = NoProject]
    /\ UNCHANGED <<config_file, cls_service_config, instances, returned,
                   parserVars, eventVars, registryVars>>

\* if cls.service_config is None
CheckLoaded ==
  \E w \in Workers :
    /\ threads[w].pc = "check"
    /\ threads' = [threads EXCEPT ![w].pc = IF cls_service_config = 0
                                              THEN "load" ELSE "return"]
    /\ UNCHANGED <<config_file, cls_service_config, instances, returned,
                   parserVars, eventVars, registryVars>>

\* loaded_config = safe_load(open(config_file_name_full)), PackitException
\* when that raises
LoadFile ==
  \E w \in Workers :
    /\ threads[w].pc = "load"
    /\ threads' = IF config_file = Unreadable
                    THEN [threads EXCEPT ![w].pc = "idle",
                                         ![w].exc = "PackitException",
                                         ![w].done = @ + 1]
                  ELSE [threads EXCEPT ![w].pc = "assign",
                                       ![w].loaded_config = config_file]
    /\ UNCHANGED <<config_file, cls_service_config, instances, returned,
                   parserVars, eventVars, registryVars>>

\* cls.service_config = ServiceConfig.get_from_dict(raw_dict=loaded_config)
AssignConfig ==
  \E w \in Workers :
    /\ threads[w].pc = "assign"
    /\ instances' = Append(instances, get_from_dict(threads[w].loaded_config))
    /\ cls_service_config' = Len(instances) + 1
    /\ threads' = [threads EXCEPT ![w].pc = "return"]
    /\ UNCHANGED <<config_file, returned,
                   parserVars, eventVars, registryVars>>

\* return cls.service_config
ReturnConfig ==
  \E w \in Workers :
    /\ threads[w].pc = "return"
    /\ threads' = [threads EXCEPT ![w].pc = "lookup",
                                  ![w].config = cls_service_config]
    /\ returned' = returned \cup {cls_service_config}
    /\ UNCHANGED <<config_file, cls_service_config, instances,
                   parserVars, eventVars, registryVars>>

\* .get_project_to_sync(dg_repo_name, dg_branch) on the instance returned,
\* and the rest of parse_distgit_commit_event, which touches nothing shared
LookupProject ==
  \E w \in Workers :
    /\ threads[w].pc = "lookup"
    /\ threads' =
         [threads EXCEPT ![w].pc = "idle", ![w].done = @ + 1,
                         ![w].project =
                           get_project_to_sync(
                             instances[threads[w].config].projects_to_sync,
                             "bar", "master")]
    /\ UNCHANGED <<config_file, cls_service_config, instances, returned,
                   parserVars, eventVars, registryVars>>

WorkerNext ==
  \/ StartParse
  \/ CheckLoaded
  \/ LoadFile
  \/ AssignConfig
  \/ ReturnConfig
  \/ LookupProject

WorkerSpec == WorkerInit /\ [][WorkerNext]_vars

(***************************************************************************)
(* Vocabulary of the properties.                                           *)
(***************************************************************************)
\* every key of the payload is a key of the payload shape of source f
Shape(f) == \A p \in Paths \ FamilyKeys(f) : event[p] = Absent

\* the payload has the keys of one webhook source only
SingleSource == \E f \in Range(WebhookFamilies) : Shape(f)

\* the chain positions whose extractor, applied to the payload on its own,
\* returns an event
Recognizers == {i \in 1..ChainLen : IsEvent(Extractor(i, event, env).res)}

\* the chain positions whose extractor, on its own, returns or raises
Stoppers ==
  {i \in 1..ChainLen : Extractor(i, event, env).res.kind \in {"event", "raise"}}

Done == pc = "done"

WebhookDone == parser = "Parser" /\ pc = "done"

\* the collaborators have what the payload refers to
CollaboratorsAnswer ==
  /\ ~NoDetails(env.tf)
  /\ env.copr_build.found
  /\ \E i \in 1..Len(env.projects_to_sync) :
       /\ env.projects_to_sync[i].dg_repo_name = Get(event, "commit.repo")
       /\ env.projects_to_sync[i].dg_branch = Get(event, "commit.branch")

(***************************************************************************)
(* C1  Parser.parse_event evaluates the extractors in the listed order and *)
(* stops at the first one that yields an event: the extractors evaluated   *)
(* are always a prefix of the chain; a returned event is the result of the *)
(* last extractor evaluated, every extractor before it was evaluated and   *)
(* yielded nothing, and the collaborator calls made are exactly those of   *)
(* the extractors evaluated (none of a later extractor); when no extractor *)
(* yields an event, or the payload is empty, no event is returned (None    *)
(* unless an extractor raised).                                            *)
(***************************************************************************)
\* the event variants the extractor at each position of the chain builds
ChainVariants ==
  <<{"PullRequestGithubEvent"}, {"PullRequestCommentGithubEvent"},
    {"IssueCommentEvent"}, {"ReleaseEvent"}, {"PushGitHubEvent"},
    {"InstallationEvent"}, {"DistGitCommitEvent"},
    {"TestingFarmResultsEvent"},
    {"CoprBuildStartEvent", "CoprBuildEndEvent"},
    {"MergeRequestGitlabEvent"}, {"KojiBuildEvent"},
    {"MergeRequestCommentGitlabEvent"}, {"IssueCommentGitlabEvent"},
    {"PushGitlabEvent"}>>

RECURSIVE CallsUpTo(_)
CallsUpTo(n) ==
  IF n = 0 THEN <<>> ELSE CallsUpTo(n - 1) \o Extractor(n, event, env).calls

C1_FirstMatchWins ==
  parser = "Parser" =>
    /\ Len(evaluated) <= ChainLen
    /\ \A i \in 1..Len(evaluated) : evaluated[i] = ChainNames[i]
    /\ pc = "chain" => Len(evaluated) = idx - 1
    /\ pc = "done" =>
         LET R == Recognizers
             S == Stoppers
         IN  /\ calls = CallsUpTo(Len(evaluated))
             /\ IsEvent(result) =>
                  /\ R # {}
                  /\ Len(evaluated) = Min(R)
                  /\ result = Extractor(Min(R), event, env).res
                  /\ result.tag \in ChainVariants[Len(evaluated)]
                  /\ \A j \in 1..(Len(evaluated) - 1) : j \notin S
             /\ (S # {} /\ Min(S) \in R) =>
                  /\ result = Extractor(Min(S), event, env).res
                  /\ Len(evaluated) = Min(S)
             /\ R = {} =>
                  /\ ~IsEvent(result)
                  /\ (S = {} /\ ~IsEmpty(event)) =>
                       (result = NoneR /\ Len(evaluated) = ChainLen)
             /\ IsEmpty(event) =>
                  (result = NoneR /\ evaluated = <<>> /\ calls = <<>>)

\* a push is returned by the fifth extractor and the nine after it were
\* never evaluated
C1_Witness ==
  /\ WebhookDone /\ event = Base("push")
  /\ result.tag = "PushGitHubEvent"
  /\ evaluated = SubSeq(ChainNames, 1, 5)

TFMarker ==
  Get(event, "source") = "testing-farm" /\ Truthy(Get(event, "request_id"))

C3_FetchFailureRaises ==
  (WebhookDone /\ TFMarker /\ NoDetails(env.tf)) =>
    /\ parse_testing_farm_results_event(event, env).res = Raise("Exception")
    /\ "parse_testing_farm_results_event" \in Range(evaluated) =>
         (result = Raise("Exception") /\ Len(evaluated) = 8)
    /\ Shape("testing-farm") => result = Raise("Exception")

C3_Witness ==
  /\ WebhookDone /\ event = Base("testing-farm") /\ NoDetails(env.tf)
  /\ result = Raise("Exception")
  /\ calls = <<"TFTTestRunModel.get_by_pipeline_id",
               "TestingFarmJobHelper.get_request_details">>

(***************************************************************************)
(* C4  (as stated) for every extractor other than the Testing Farm one, a  *)
(* payload whose marker matches and in which a field the event requires is *)
(* missing (the push commit count aside) makes the extractor return None:  *)
(* it neither raises nor builds an event without the field.                *)
(***************************************************************************)
\* the marker of the extractor at position i of the chain
Marker(i) ==
  CASE i = 1 -> /\ MappingTruthy(event, "pull_request")
                /\ Get(event, "action") \in {"opened", "reopened", "synchronize"}
    [] i = 2 -> /\ Truthy(nested_get(event, "issue.pull_request"))
                /\ Get(event, "action") \in {"created", "edited"}
    [] i = 3 -> /\ MappingTruthy(event, "issue")
                /\ ~Truthy(nested_get(event, "issue.pull_request"))
                /\ Get(event, "action") = "created"
    [] i = 4 -> /\ Get(event, "action") = "published"
                /\ MappingTruthy(event, "release")
    [] i = 5 -> HasKey(event, "ref") /\ Get(event, "object_kind") # "push"
    [] i = 6 -> /\ MappingTruthy(event, "installation.account")
                /\ Get(event, "action") \in {"created", "added"}
    [] i = 7 -> Get(event, "topic") = DistGitTopic
    [] i = 8 -> /\ Get(event, "source") = "testing-farm"
                /\ Truthy(Get(event, "request_id"))
    [] i = 9 -> Get(event, "topic") \in {CoprStartTopic, CoprEndTopic}
    [] i = 10 -> Get(event, "object_kind") = "merge_request"
    [] i = 11 -> Get(event, "topic") = KojiTopic
    [] i = 12 -> /\ Get(event, "object_kind") = "note"
                 /\ MappingTruthy(event, "merge_request")
    [] i = 13 -> /\ Get(event, "object_kind") = "note"
                 /\ MappingTruthy(event, "issue")
    [] i = 14 -> Get(event, "object_kind") = "push"

\* the payload keys the event of the extractor at position i is built from
\* and cannot do without
Required(i) ==
  CASE i = 1 -> {"number", "pull_request.head.repo.owner.login",
                 "pull_request.head.repo.name", "pull_request.head.sha",
                 "pull_request.user.login", "repository.html_url"}
    [] i = 2 -> {"issue.number", "issue.user.login", "repository.name",
                 "comment.user.login", "repository.html_url"}
    [] i = 3 -> {"issue.number", "comment.body", "comment.user.login",
                 "repository.owner.login", "repository.name"}
    [] i = 4 -> {"repository.owner.login", "repository.name",
                 "release.tag_name", "repository.html_url"}
    [] i = 5 -> {"ref", "before", "pusher.name", "repository.owner.login",
                 "repository.name"}
    [] i = 6 -> {"installation.id", "installation.account.login",
                 "installation.account.id", "sender.id", "sender.login"}
    [] i = 7 -> {"commit.namespace", "commit.repo", "commit.branch",
                 "commit.rev"}
    [] i = 9 -> {}
    [] i = 10 -> {"object_attributes.state", "user.username",
                  "object_attributes.id", "object_attributes.iid",
                  "object_attributes.source.web_url", "project.web_url"}
    [] i = 11 -> {"info.state"}
    [] i = 12 -> {"merge_request.state", "merge_request.iid",
                  "merge_request.id", "merge_request.source.web_url",
                  "project.web_url", "user.username",
                  "merge_request.last_commit.id"}
    [] i = 13 -> {"issue.iid", "object_attributes.note", "issue.state",
                  "project.web_url", "user.username"}
    [] i = 14 -> {"ref", "before", "user_username", "commits", "after",
                  "project.web_url"}
    [] OTHER -> {}

\* the same for the extractors of the CentOS dispatch table
CentosRequired(git_topic) ==
  IF git_topic = "git.receive"
    THEN {"repo.namespace", "repo.name", "repo.url_path", "branch",
          "end_commit"}
    ELSE {"pullrequest.id", "pullrequest.repo_from.name",
          "pullrequest.repo_from.user.name", "pullrequest.project.name",
          "pullrequest.project.url_path", "pullrequest.commit_stop"}

C4_MissingFieldReturnsAbsent ==
  /\ WebhookDone =>
       \A i \in (1..ChainLen) \ {8} :
         (Marker(i) /\ \E p \in Required(i) : ~HasKey(event, p))
           => Extractor(i, event, env).res = NoneR
  /\ (parser = "CentosEventParser" /\ Done
      /\ Get(event, "git_topic") \in DOMAIN event_mapping
      /\ \E p \in CentosRequired(event["git_topic"]) : ~HasKey(event, p))
       => result = NoneR

(***************************************************************************)
(* C5  A GitHub pull-request comment whose author is one of the bot        *)
(* identities yields no event: the comment extractor returns None for it   *)
(* whatever else the payload holds, and for a payload of the pull-request  *)
(* comment shape parse_event returns None.                                 *)
(***************************************************************************)
C5_BotCommentDropped ==
  (WebhookDone
   /\ Truthy(nested_get(event, "issue.pull_request"))
   /\ Get(event, "comment.user.login")
        \in {"packit-as-a-service[bot]", "packit-as-a-service-stg[bot]"}) =>
    /\ parse_pull_request_comment_event(event) = NoneR
    /\ Shape("pr-comment") =>
         (result = NoneR /\ Len(evaluated) = ChainLen)

\* the staging bot comments on a pull request, nothing else is wrong with
\* the payload
C5_Witness ==
  /\ WebhookDone
  /\ event = [Base("pr-comment") EXCEPT
                !["comment.user.login"] = "packit-as-a-service-stg[bot]"]
  /\ result = NoneR

(***************************************************************************)
(* C6  A push that deletes a branch yields no event from either push       *)
(* extractor: parse_push_event returns None when "deleted" is truthy and   *)
(* parse_gitlab_push_event returns None when "after" starts with seven     *)
(* zeros, whatever the other keys hold; parse_event returns None for such  *)
(* a payload of the push shape of either forge.                            *)
(***************************************************************************)
DeletedOnGithub == Truthy(Get(event, "deleted"))

DeletedOnGitlab ==
  /\ Get(event, "object_kind") = "push"
  /\ HasKey(event, "after")
  /\ StartsWith(event["after"], SevenZeros)

C6_BranchDeletionDropped ==
  WebhookDone =>
    /\ DeletedOnGithub => parse_push_event(event) = NoneR
    /\ DeletedOnGitlab => parse_gitlab_push_event(event) = NoneR
    /\ (DeletedOnGithub /\ Shape("push")) => result = NoneR
    /\ (DeletedOnGitlab /\ Shape("gitlab-push")) => result = NoneR

\* a GitLab push whose "after" has seven leading zeros and is not the
\* all-zero id
C6_Witness ==
  /\ WebhookDone
  /\ event = [Base("gitlab-push") EXCEPT !["after"] = "0000000a1b2c3d4e"]
  /\ result = NoneR
  /\ Len(evaluated) = ChainLen

(***************************************************************************)
(* C7  Both push extractors tolerate a missing commit count and reject a   *)
(* missing reference, "before" commit or pusher: a payload equal to a      *)
(* well-formed push except for the commit count (and the branch it names)  *)
(* yields the push event of its forge, and a payload without "ref",        *)
(* "before" or the pusher (pusher.name on GitHub, user_username on GitLab) *)
(* yields None from the extractor.                                         *)
(***************************************************************************)
\* the payload equals the well-formed payload of f except on the keys K
SameExcept(f, K) == \A p \in Paths \ K : event[p] = Base(f)[p]

C7_PushCommitCountOptional ==
  WebhookDone =>
    /\ (SameExcept("push", {"size", "commits", "ref"})
        /\ ~HasKey(event, "size") /\ Truthy(Get(event, "ref"))) =>
         /\ parse_push_event(event).tag = "PushGitHubEvent"
         /\ result = parse_push_event(event)
    /\ (SameExcept("gitlab-push", {"total_commits_count", "ref"})
        /\ ~HasKey(event, "total_commits_count")
        /\ Truthy(Get(event, "ref"))) =>
         /\ parse_gitlab_push_event(event).tag = "PushGitlabEvent"
         /\ result = parse_gitlab_push_event(event)
    /\ (\E p \in {"ref", "before", "pusher.name"} : ~HasKey(event, p)) =>
         parse_push_event(event) = NoneR
    /\ (Get(event, "object_kind") = "push"
        /\ \E p \in {"ref", "before", "user_username"} : ~HasKey(event, p)) =>
         parse_gitlab_push_event(event) = NoneR

\* a GitLab push without total_commits_count is returned as a push event
C7_Witness ==
  /\ WebhookDone
  /\ event = [Base("gitlab-push") EXCEPT !["total_commits_count"] = Absent]
  /\ result.tag = "PushGitlabEvent"
  /\ result.fields.git_ref = "main"

(***************************************************************************)
(* C8  A dist-git commit message with the dist-git topic and namespace,    *)
(* repo, branch and rev present yields an event exactly when some          *)
(* configured mirroring rule has the payload's repo and branch as its      *)
(* dg_repo_name and dg_branch; without such a rule the extractor returns   *)
(* None and raises nothing, and so does parse_event for a payload of the   *)
(* dist-git shape.                                                         *)
(***************************************************************************)
DistGitComplete ==
  /\ Get(event, "topic") = DistGitTopic
  /\ \A p \in {"commit.namespace", "commit.repo", "commit.branch",
               "commit.rev"} : Truthy(Get(event, p))

RuleConfigured ==
  \E i \in 1..Len(env.projects_to_sync) :
    /\ env.projects_to_sync[i].dg_repo_name = event["commit.repo"]
    /\ env.projects_to_sync[i].dg_branch = event["commit.branch"]

C8_DistGitNeedsRule ==
  (WebhookDone /\ DistGitComplete) =>
    LET r == parse_distgit_commit_event(event, env).res
    IN  /\ IsEvent(r) <=> RuleConfigured
        /\ ~RuleConfigured => r = NoneR
        /\ Shape("dist-git") => result = r

\* rules are configured, for the same repo too, but none for this branch
C8_Witness ==
  /\ WebhookDone
  /\ event = [Base("dist-git") EXCEPT !["commit.branch"] = "f33"]
  /\ Len(env.projects_to_sync) = MaxRules
  /\ \E i \in 1..Len(env.projects_to_sync) :
       env.projects_to_sync[i].dg_repo_name = "bar"
  /\ result = NoneR
  /\ "ServiceConfig.get_project_to_sync" \in Range(calls)

(***************************************************************************)
(* C9  An extractor whose marker does not match returns None and calls no  *)
(* collaborator: in every run of the chain the Testing Farm lookups were   *)
(* made only for a payload with source "testing-farm" and a request_id,    *)
(* the mirroring-rule lookup only for the dist-git topic with namespace,   *)
(* repo, branch and rev present, the Copr build-store lookup only for one  *)
(* of the two Copr build topics; and no step of the chain changes the      *)
(* payload.                                                                *)
(***************************************************************************)
CallsJustified ==
  /\ ("TFTTestRunModel.get_by_pipeline_id" \in Range(calls)
      \/ "TestingFarmJobHelper.get_request_details" \in Range(calls))
       => TFMarker
  /\ ("ServiceConfig.get_project_to_sync" \in Range(calls)
      \/ "ServiceConfig.get_service_config" \in Range(calls))
       => DistGitComplete
  /\ "CoprBuildDB.get_build" \in Range(calls)
       => Get(event, "topic") \in {CoprStartTopic, CoprEndTopic}

UnmatchedIsSilent ==
  \A i \in {7, 8, 9} :
    ~Marker(i) => Extractor(i, event, env) = Pure(NoneR)

C9_NoSideEffectsWithoutMarker ==
  /\ [](parser = "Parser" => (CallsJustified /\ UnmatchedIsSilent))
  /\ [][parser = "Parser" => event' = event]_vars

\* the Testing Farm extractor was evaluated on a payload that has a
\* request_id but another source: nothing was looked up
C9_Witness ==
  /\ WebhookDone
  /\ event = [Base("testing-farm") EXCEPT !["source"] = "github"]
  /\ "parse_testing_farm_results_event" \in Range(evaluated)
  /\ calls = <<>>
  /\ result = NoneR

(***************************************************************************)
(* C10 Recognition is deterministic: when the same payload object is       *)
(* parsed again, with the same configuration and collaborator answers,     *)
(* the second parse ends as the first did: no event both times, the same   *)
(* exception, or an event of the same variant with the same fields (the    *)
(* events carry no created_at of their own unless the payload supplies     *)
(* it); this holds although the first parse may have loaded the            *)
(* configuration and, for the CentOS parser, added keys to the payload.    *)
(***************************************************************************)
C10_SameOutcomeTwice ==
  (pc = "done" /\ run > 1) =>
    /\ result.kind = outcomes[run - 1].kind
    /\ result.tag = outcomes[run - 1].tag
    /\ result.fields = outcomes[run - 1].fields

\* the CentOS parser returns the same comment event for a payload its first
\* run had already tagged with source, git_topic and https_url
C10_Witness ==
  /\ parser = "CentosEventParser" /\ pc = "done" /\ run = 2
  /\ HasKey(event, "https_url") /\ HasKey(event, "git_topic")
  /\ result.tag = "PullRequestCommentPagureEvent"
  /\ outcomes[1] = result

(***************************************************************************)
(* Vocabulary of the properties of events.                                 *)
(***************************************************************************)
\* the mappings get_dict returned (it did not raise)
Returned == {i \in 1..Len(dumps) : dumps[i].exc = ""}

RECURSIVE JsonSafe(_, _)
\* the value can be written as JSON: a string, a number, None, or a list or
\* dict of such values; an enumeration member, a datetime or an object
\* cannot
JsonSafe(h, v) ==
  IF IsRef(v)
    THEN /\ h[v.ref].kind \in {"list", "dict"}
         /\ \A k \in DOMAIN h[v.ref].items : JsonSafe(h, h[v.ref].items[k])
    ELSE "str" \in DOMAIN v \/ IsNumber(v) \/ IsNone(v)

(***************************************************************************)
(* C11 (as stated) the mapping get_dict returns is JSON-safe for every     *)
(* variant: trigger and every other enumeration-valued field, those inside *)
(* nested values such as the list of test results included, appear as      *)
(* their string value, and created_at as an integer.                       *)
(***************************************************************************)
C11_DictIsJsonSafe ==
  \A i \in Returned :
    /\ "str" \in DOMAIN dumps[i].d["trigger"]
    /\ "int" \in DOMAIN dumps[i].d["created_at"]
    /\ \A k \in DOMAIN dumps[i].d : JsonSafe(heap, dumps[i].d[k])

(***************************************************************************)
(* C12 get_dict copies by value: a call of get_dict changes no attribute   *)
(* of the event and nothing the attributes refer to, and no step taken     *)
(* after a call (an attribute assigned, a list, dict or test result the    *)
(* event refers to changed in place) changes what a mapping returned       *)
(* earlier holds.                                                          *)
(***************************************************************************)
C12_GetDictCopiesByValue ==
  [][/\ Len(dumps') > Len(dumps) =>
          /\ obj' = obj
          /\ ResolveAll(heap', obj.dict) = ResolveAll(heap, obj.dict)
     /\ \A i \in 1..Len(dumps) :
          /\ dumps'[i] = dumps[i]
          /\ ResolveAll(heap', dumps[i].d) = ResolveAll(heap, dumps[i].d)
    ]_vars

\* the repositories list of an installation event was emptied after
\* get_dict returned, and the mapping still holds the two repositories
C12_Witness ==
  /\ obj.cls = "InstallationEvent" /\ Constructed
  /\ Len(dumps) > 0 /\ dumps[1].exc = "" /\ dumps[1].edits < edits
  /\ Len(Resolve(heap, dumps[1].d["repositories"]).items) = 2
  /\ Len(Resolve(heap, obj.dict["repositories"]).items) < 2

(***************************************************************************)
(* C13 get_dict is a pure function of the event's fields: two calls with   *)
(* no mutation of the event between them return mappings that hold the     *)
(* same, whatever time passed between the calls, for every variant.        *)
(***************************************************************************)
C13_GetDictIsPure ==
  \A i, j \in 1..Len(dumps) :
    dumps[i].edits = dumps[j].edits =>
      /\ dumps[i].exc = dumps[j].exc
      /\ ResolveAll(heap, dumps[i].d) = ResolveAll(heap, dumps[j].d)

\* a Copr build event, whose created_at is the time of its construction,
\* was serialized twice a second apart
C13_Witness ==
  /\ obj.cls = "CoprBuildEvent" /\ Len(dumps) >= 2
  /\ dumps[1].exc = "" /\ dumps[2].exc = ""
  /\ dumps[1].edits = dumps[2].edits /\ dumps[1].time < dumps[2].time
  /\ dumps[1].d["created_at"] = Num(1000)
  /\ dumps[1].d["build"] # dumps[2].d["build"]

(***************************************************************************)
(* C14 get_dict is total: it returns for every constructed event, and the  *)
(* keys of the mapping are exactly the attributes the event had when it    *)
(* was called, none dropped and none added.                                *)
(***************************************************************************)
C14_GetDictIsTotal ==
  \A i \in 1..Len(dumps) :
    /\ dumps[i].exc = ""
    /\ DOMAIN dumps[i].d = dumps[i].fields

\* a pull-request comment event whose base_ref is None: the key is there
C14_Witness ==
  /\ obj.cls = "PullRequestCommentEvent" /\ Len(dumps) > 0
  /\ dumps[1].fields = DOMAIN obj.dict
  /\ Cardinality(DOMAIN dumps[1].d) = 12
  /\ dumps[1].d["base_ref"] = NoneO

(***************************************************************************)
(* C15 (as stated) created_at round-trips: an event constructed with the   *)
(* integer epoch seconds of an instant t, with the float epoch of t, or    *)
(* with the ISO-8601 text of t ending in "Z" or "+00:00" stores the same   *)
(* created_at, the UTC datetime of t, for every t from epoch 0 on; and     *)
(* every constructed event has a created_at.                               *)
(***************************************************************************)
\* the created_at argument denotes the instant t at whole-second resolution
Denotes(arg, t) ==
  arg \in {Num(t), Float(t, 0), Iso(t, "Z"), Iso(t, "+00:00")}

C15_CreatedAtRoundTrips ==
  (obj.cls # "" /\ obj.exc = "") =>
    /\ "created_at" \in DOMAIN obj.dict
    /\ \A t \in Instants :
         Denotes(obj.created_at, t)
           => obj.dict["created_at"] = Datetime(t, 0, TRUE, 0)

\* the key a registration is made under: the supplied action of a by-name
\* registration, the handler's declared type otherwise
KeyOf(r) == IF r.decorator = "add_to_comment_action_mapping" THEN r.kls.type ELSE r.name

\* the registrations made under key k, by position
Under(k) == {i \in 1..Len(registered) : KeyOf(registered[i]) = k}

Latest(S) == CHOOSE i \in S : \A j \in S : j <= i

\* C16: after any sequence of registrations the registry maps each key to
\* the handler of the most recent registration under that key, and holds no
\* other key: a key never registered is absent, so a by-name registration
\* has added nothing under the handler's own declared type and no
\* registration has touched an entry under another key.
C16_LastRegistrationWins ==
  /\ DOMAIN MAP_COMMENT_ACTION_TO_HANDLER =
       {k \in CommentActions : Under(k) # {}}
  /\ \A k \in DOMAIN MAP_COMMENT_ACTION_TO_HANDLER :
       MAP_COMMENT_ACTION_TO_HANDLER[k] = registered[Latest(Under(k))].kls

\* a key registered twice with different handlers, the later one by name for
\* a handler whose own type was never registered, and an earlier entry under
\* another key
C16_Witness ==
  /\ Len(registered) = 3
  /\ \E k \in CommentActions :
       /\ \E i, j \in Under(k) : i < j /\ registered[i].kls # registered[j].kls
       /\ LET r == registered[Latest(Under(k))]
          IN  /\ r.decorator = "add_to_comment_action_mapping_with_name"
              /\ r.kls.type # k
              /\ Under(r.kls.type) = {}
              /\ r.kls.type \notin DOMAIN MAP_COMMENT_ACTION_TO_HANDLER

(***************************************************************************)
(* Vocabulary of the properties of the topic dispatch.                     *)
(***************************************************************************)
\* the topic of the payload is "<source-host>/<suffix>"
HostAndSuffix(payload) ==
  HasKey(payload, "topic") /\ Len(Components(payload["topic"])) = 2

Host(payload) == Components(payload["topic"])[1]

Suffix(payload) == Components(payload["topic"])[2]

\* the payload with source and git_topic attached
Attached(payload) ==
  [payload EXCEPT !["source"] = Host(payload), !["git_topic"] = Suffix(payload)]

\* what the extractor bound to a suffix of the dispatch table returns
BoundExtractor(suffix, payload) ==
  CASE suffix = "pull-request.new" -> pull_request_event(payload, "opened")
    [] suffix = "pull-request.reopened" -> pull_request_event(payload, "reopened")
    [] suffix = "pull-request.updated" -> pull_request_event(payload, "synchronize")
    [] suffix = "pull-request.comment.added" -> pull_request_comment(payload, "added")
    [] suffix = "pull-request.comment.edited" -> pull_request_comment(payload, "edited")
    [] suffix = "git.receive" -> push_event(payload)

SixKeys ==
  {"pull-request.new", "pull-request.reopened", "pull-request.updated",
   "pull-request.comment.added", "pull-request.comment.edited", "git.receive"}

\* C17: CentosEventParser.parse_event on a message whose topic is
\* "<source-host>/<suffix>" attaches source and git_topic to the payload; if
\* the suffix is not one of the six keys of the dispatch table it returns no
\* event and raises nothing, otherwise it returns the result of the
\* extractor bound to that suffix.
C17_TopicDispatch ==
  [][(parser = "CentosEventParser" /\ pc = "start" /\ pc' = "done"
      /\ HostAndSuffix(event)) =>
       /\ event'["source"] = Host(event)
       /\ event'["git_topic"] = Suffix(event)
       /\ IF Suffix(event) \notin SixKeys THEN result' = NoneR
          ELSE result' = BoundExtractor(Suffix(event), Attached(event)).res]_vars

\* a message of a topic in the table was dispatched and its extractor
\* returned an event
C17_Witness ==
  /\ parser = "CentosEventParser" /\ pc = "done" /\ run = 1
  /\ HostAndSuffix(event) /\ Suffix(event) = "pull-request.comment.edited"
  /\ event["git_topic"] = "pull-request.comment.edited"
  /\ event["source"] = "git.centos.org"
  /\ result.tag = "PullRequestCommentPagureEvent"

\* a message of a topic outside the table was dropped
UnknownSuffixDropped ==
  /\ parser = "CentosEventParser" /\ pc = "done" /\ run = 1
  /\ HostAndSuffix(event) /\ Suffix(event) \notin SixKeys
  /\ event["git_topic"] = Suffix(event)
  /\ result = NoneR

\* the action an event carries for the label bound to its topic suffix
LabelAction ==
  [s \in SixKeys \ {"git.receive"} |->
     CASE s = "pull-request.new" -> PullRequestAction.opened
       [] s = "pull-request.reopened" -> PullRequestAction.reopened
       [] s = "pull-request.updated" -> PullRequestAction.synchronize
       [] s = "pull-request.comment.added" -> PullRequestCommentAction.created
       [] s = "pull-request.comment.edited" -> PullRequestCommentAction.edited]

\* C18: the event produced for a topic suffix whose table entry binds an
\* action label carries the action bound in the table: pull-request.new
\* gives opened, pull-request.reopened gives reopened, pull-request.updated
\* gives synchronize, and the events of comment.added and comment.edited
\* carry the action of their own label, so that an edited comment differs
\* from an added one.
C18_BoundActionCarried ==
  (parser = "CentosEventParser" /\ pc = "done" /\ IsEvent(result)
   /\ event["git_topic"] \in DOMAIN LabelAction) =>
     result.fields.action = LabelAction[event["git_topic"]]

\* the same, for the three pull-request topics only
PullRequestTopicsCarryLabel ==
  (parser = "CentosEventParser" /\ pc = "done" /\ IsEvent(result)
   /\ event["git_topic"] \in {"pull-request.new", "pull-request.reopened",
                              "pull-request.updated"}) =>
     result.fields.action = LabelAction[event["git_topic"]]

(***************************************************************************)
(* Vocabulary of the properties of the test report.                        *)
(***************************************************************************)
\* the report is there and is not a well-formed list of test cases: it is
\* not well-formed XML, a test case lacks its name or result attribute or
\* has a result outside the enumeration, or the test-case node is a single
\* mapping where a list is expected
Malformed(xunit) ==
  /\ xunit # Absent /\ Truthy(xunit)
  /\ LET doc == XunitDoc(xunit)
     IN  \/ ~doc.wellformed
         \/ doc.shape = "dict"
         \/ \E i \in 1..Len(doc.cases) :
              \/ doc.cases[i].name = Absent
              \/ doc.cases[i].result = Absent
              \/ doc.cases[i].result \notin TestingFarmResult

\* the details with the report taken out
WithoutReport(details) == [details EXCEPT !["result.xunit"] = Absent]

\* C19: when the Testing Farm detail fetch succeeds, a malformed XML test
\* report (not well-formed, a test case lacking its name or result
\* attribute, a result outside the enumeration, a test-case node of an
\* unexpected kind) never aborts recognition: where the same details without
\* the report give an event, the extractor returns a test-results event
\* with an empty test list.
C19_MalformedReportGivesEmptyTests ==
  (/\ WebhookDone /\ TFMarker /\ ~NoDetails(env.tf)
   /\ Malformed(env.tf["result.xunit"])
   /\ "parse_testing_farm_results_event" \in Range(evaluated)
   /\ IsEvent(results_from_details(event["request_id"], WithoutReport(env.tf),
                                   env.tft_test_run))) =>
     /\ IsEvent(result)
     /\ result.tag = "TestingFarmResultsEvent"
     /\ result.fields.tests = <<>>

\* the part that holds: a single test-case mapping where a list is expected
\* gives the event with an empty test list
SingleCaseGivesEmptyTests ==
  (/\ WebhookDone /\ TFMarker /\ ~NoDetails(env.tf)
   /\ env.tf["result.xunit"] # Absent
   /\ XunitDoc(env.tf["result.xunit"]).shape = "dict"
   /\ "parse_testing_farm_results_event" \in Range(evaluated)
   /\ IsEvent(results_from_details(event["request_id"], WithoutReport(env.tf),
                                   env.tft_test_run))) =>
     /\ IsEvent(result)
     /\ result.tag = "TestingFarmResultsEvent"
     /\ result.fields.tests = <<>>

(***************************************************************************)
(* Vocabulary of the properties of the build extractors.                   *)
(***************************************************************************)
\* the status codes of Copr's build messages (failed, succeeded, canceled,
\* running, pending, skipped, starting, importing, forked, waiting);
\* parse_copr_event has no enumeration of its own
CoprStatusCodes == {"0", "1", "2", "3", "4", "5", "6", "7", "8", "9"}

CoprTopicRecognized == Get(event, "topic") \in {CoprStartTopic, CoprEndTopic}

KojiTopicRecognized == Get(event, "topic") = KojiTopic

InvalidCoprStatus == HasKey(event, "status") /\ event["status"] \notin CoprStatusCodes

InvalidKojiState ==
  \/ HasKey(event, "new") /\ event["new"] \notin KojiBuildState
  \/ HasKey(event, "old") /\ event["old"] \notin KojiBuildState

\* C20: for the Copr and Koji build extractors, a message whose topic is not
\* one of the recognized build topics yields no event, and a message with a
\* recognized topic whose status or state is outside the closed enumeration
\* is rejected: the extractor returns no event, it neither raises an
\* exception nor returns an event carrying the invalid status.
C20_InvalidStatusRejected ==
  WebhookDone =>
    /\ ~CoprTopicRecognized => parse_copr_event(event, env).res = NoneR
    /\ ~KojiTopicRecognized => parse_koji_event(event) = NoneR
    /\ (CoprTopicRecognized /\ InvalidCoprStatus) =>
         parse_copr_event(event, env).res = NoneR
    /\ (KojiTopicRecognized /\ InvalidKojiState) =>
         parse_koji_event(event) = NoneR

\* the part that holds: a topic that is not a build topic yields no event
UnrecognizedTopicIsNotMine ==
  WebhookDone =>
    /\ ~CoprTopicRecognized => parse_copr_event(event, env).res = NoneR
    /\ ~KojiTopicRecognized => parse_koji_event(event) = NoneR

(***************************************************************************)
(* Vocabulary of the properties of the merge-request extractors.           *)
(***************************************************************************)
Reopens(action) == action \in {"reopen", "update"}

\* what a merge-request extractor owes to the state and action it read
StateGuards(r, state, action) ==
  /\ (state # "opened" /\ ~Reopens(action)) => ~IsEvent(r)
  /\ IsEvent(r) =>
       r.fields.action = IF Reopens(action) THEN action ELSE "opened"

\* C22: a GitLab merge-request payload, and a merge-request comment payload,
\* whose state is not "opened" yields no event unless its action is
\* "reopen" or "update"; when an event is produced its action is the
\* payload's action if that is reopen or update and "opened" otherwise.
C22_MergeRequestStateGuard ==
  WebhookDone =>
    /\ StateGuards(parse_mr_event(event), event["object_attributes.state"],
                   nested_get(event, "object_attributes.action"))
    /\ StateGuards(parse_merge_request_comment_event(event),
                   nested_get(event, "merge_request.state"),
                   nested_get(event, "merge_request.action"))
    /\ result.tag = "MergeRequestGitlabEvent" =>
         result = parse_mr_event(event)
    /\ result.tag = "MergeRequestCommentGitlabEvent" =>
         result = parse_merge_request_comment_event(event)

\* an opened merge request that was updated gives an event with action
\* update
C22_Witness ==
  /\ WebhookDone /\ result.tag = "MergeRequestGitlabEvent"
  /\ event["object_attributes.state"] = "opened"
  /\ event["object_attributes.action"] = "update"
  /\ result.fields.action = "update"

\* a closed merge request gives no event, whatever its action
ClosedMergeRequestDropped ==
  WebhookDone =>
    /\ event["object_attributes.state"] \in {"closed", "merged"} =>
         ~IsEvent(parse_mr_event(event))
    /\ nested_get(event, "merge_request.state") \in {"closed", "merged"} =>
         ~IsEvent(parse_merge_request_comment_event(event))

(***************************************************************************)
(* Vocabulary of the properties of the release extractor.                  *)
(***************************************************************************)
\* a published release with a tag, of a repository with an owner and a name
ReleaseComplete ==
  /\ Get(event, "action") = "published"
  /\ MappingTruthy(event, "release")
  /\ Truthy(nested_get(event, "release.tag_name"))
  /\ Truthy(nested_get(event, "repository.owner.login"))
  /\ Truthy(nested_get(event, "repository.name"))

\* the transport mapping of the release event the parser's fields give
ReleaseMapping(fields) ==
  LET clk == [time |-> 1000, utcoffset |-> 0]
      e == ReleaseEvent([https_url |-> Str(fields.project_url),
                         repo_namespace |-> Str(fields.repo_namespace),
                         repo_name |-> Str(fields.repo_name),
                         tag_name |-> Str(fields.tag_name)], clk)
  IN  get_dict("ReleaseEvent", e.dict, <<>>, clk)

\* C25: a release webhook with action "published", a release carrying
\* tag_name T and a repository with owner login N, name R and an html_url is
\* recognized by Parser.parse_event as a release event with repo_namespace
\* N, repo_name R, tag_name T and the html_url as its project URL, whose
\* transport mapping has trigger "release"; any other action, or a missing
\* release, namespace, name or tag, yields no release event.
C25_ReleaseRecognized ==
  WebhookDone =>
    /\ (Shape("release") /\ ReleaseComplete
        /\ HasKey(event, "repository.html_url")) =>
         /\ result = Ev("ReleaseEvent",
                        [repo_namespace |-> event["repository.owner.login"],
                         repo_name |-> event["repository.name"],
                         tag_name |-> event["release.tag_name"],
                         project_url |-> event["repository.html_url"]])
         /\ ReleaseMapping(result.fields).exc = ""
         /\ ReleaseMapping(result.fields).d["trigger"] = Str("release")
         /\ ReleaseMapping(result.fields).d["tag_name"] =
              Str(event["release.tag_name"])
    /\ ~ReleaseComplete =>
         /\ result.tag # "ReleaseEvent"
         /\ parse_release_event(event) = NoneR

\* the release webhook of the example was recognized
C25_Witness ==
  /\ WebhookDone /\ event = Base("release")
  /\ result.tag = "ReleaseEvent" /\ result.fields.tag_name = "1.2.3"
  /\ result.fields.repo_namespace = "foo" /\ result.fields.repo_name = "bar"

(***************************************************************************)
(* Vocabulary of the properties of the push extractor.                     *)
(***************************************************************************)
\* <branch> of a ref "refs/heads/<branch>"
BranchOfRef ==
  [r \in {"refs/heads/main", "refs/heads/feature/x"} |->
     IF r = "refs/heads/main" THEN "main" ELSE "feature/x"]

\* a push to a branch, with its commits, its pusher and its repository
PushComplete ==
  /\ Get(event, "ref") \in DOMAIN BranchOfRef
  /\ Truthy(Get(event, "before")) /\ Truthy(Get(event, "after"))
  /\ Truthy(nested_get(event, "pusher.name"))
  /\ Truthy(nested_get(event, "repository.owner.login"))
  /\ Truthy(nested_get(event, "repository.name"))

\* the head commit: "head", else "after", else "head_commit"
HeadCommit ==
  IF Truthy(Get(event, "head")) THEN event["head"]
  ELSE IF Truthy(Get(event, "after")) THEN event["after"]
  ELSE Get(event, "head_commit")

\* the push event the payload is to give
PushEventDue ==
  /\ IsEvent(parse_push_event(event))
  /\ parse_push_event(event).tag = "PushGitHubEvent"
  /\ parse_push_event(event).fields.git_ref = BranchOfRef[event["ref"]]
  /\ parse_push_event(event).fields.commit_sha = HeadCommit
  /\ Shape("push") => result = parse_push_event(event)

\* C26 (as stated): a GitHub push webhook with a ref of the form
\* "refs/heads/<branch>", a "before" commit, an "after" commit, a pusher
\* name and a repository owner and name yields a push event whose git_ref
\* is <branch> (a branch name containing "/" is kept whole) and whose
\* commit_sha is the head commit taken from "head", else "after", else
\* "head_commit".
C26_PushYieldsEvent == (WebhookDone /\ PushComplete) => PushEventDue

\* C26 (amended): the same for a push whose "deleted" flag is not set; a
\* push that deletes the branch yields no event.
C26_PushYieldsEventUnlessDeleted ==
  /\ (WebhookDone /\ PushComplete /\ ~Truthy(Get(event, "deleted"))) =>
       PushEventDue
  /\ (WebhookDone /\ PushComplete /\ Truthy(Get(event, "deleted"))) =>
       parse_push_event(event) = NoneR

\* a push to a branch whose name contains "/" gave an event for the whole
\* branch name
C26_Witness ==
  /\ WebhookDone /\ PushComplete /\ event["ref"] = "refs/heads/feature/x"
  /\ result.tag = "PushGitHubEvent" /\ result.fields.git_ref = "feature/x"
  /\ result.fields.commit_sha = event["after"]

(***************************************************************************)
(* Vocabulary of the properties of the mirroring rules.                    *)
(***************************************************************************)
RuleMatches(rule, repo, branch) ==
  rule.dg_repo_name = repo /\ rule.dg_branch = branch

\* rule i is the first of the list, in list order, that matches
FirstMatch(rules, i, repo, branch) ==
  /\ RuleMatches(rules[i], repo, branch)
  /\ \A j \in 1..(i - 1) : ~RuleMatches(rules[j], repo, branch)

\* what get_project_to_sync owes for the rules configured and a lookup key
LookupIsFirstMatch(rules, repo, branch) ==
  LET found == get_project_to_sync(rules, repo, branch)
  IN  /\ \A i \in 1..Len(rules) :
           FirstMatch(rules, i, repo, branch) => found = rules[i]
      /\ (\A i \in 1..Len(rules) : ~RuleMatches(rules[i], repo, branch)) =>
           found = NoProject

\* the dist-git commit event built from rule i and the payload
EventOfRule(rule) ==
  Ev("DistGitCommitEvent",
     [topic |-> event["topic"],
      repo_namespace |-> rule.repo_namespace,
      repo_name |-> rule.repo_name,
      branch |-> rule.branch,
      project_url |-> <<rule.forge, "/", rule.repo_namespace, "/",
                        rule.repo_name>>,
      dg_repo_namespace |-> event["commit.namespace"],
      dg_repo_name |-> event["commit.repo"],
      dg_branch |-> event["commit.branch"],
      dg_rev |-> event["commit.rev"],
      dg_project_url |-> <<"https://src.fedoraproject.org/",
                           event["commit.namespace"], "/",
                           event["commit.repo"]>>])

FirstRuleDecides ==
  WebhookDone =>
    /\ \A repo \in {"bar", "baz", "qux"}, branch \in {"master", "f33"} :
         LookupIsFirstMatch(env.projects_to_sync, repo, branch)
    /\ DistGitComplete =>
         \A i \in 1..Len(env.projects_to_sync) :
           FirstMatch(env.projects_to_sync, i, event["commit.repo"],
                      event["commit.branch"]) =>
             /\ parse_distgit_commit_event(event, env).res =
                  EventOfRule(env.projects_to_sync[i])
             /\ Shape("dist-git") =>
                  result = EventOfRule(env.projects_to_sync[i])

\* C28: ServiceConfig.get_project_to_sync(repo, branch) returns the first
\* rule, in configured list order, whose dg_repo_name and dg_branch both
\* equal the arguments, and nothing when no rule matches; the dist-git
\* commit event built from it takes repo_namespace, repo_name, branch and
\* the upstream project URL from that rule and the dg_* fields from the
\* payload; and the lookup leaves the rule list unchanged.
C28_FirstMatchingRule ==
  /\ []FirstRuleDecides
  /\ [][env'.projects_to_sync = env.projects_to_sync]_vars

\* two rules match the commit, and the event is built from the first, which
\* names another upstream project than the second
C28_Witness ==
  /\ WebhookDone /\ DistGitComplete /\ Shape("dist-git")
  /\ Len(env.projects_to_sync) >= 2
  /\ FirstMatch(env.projects_to_sync, 1, event["commit.repo"],
                event["commit.branch"])
  /\ RuleMatches(env.projects_to_sync[2], event["commit.repo"],
                 event["commit.branch"])
  /\ env.projects_to_sync[1].repo_namespace #
       env.projects_to_sync[2].repo_namespace
  /\ result = EventOfRule(env.projects_to_sync[1])
  /\ "ServiceConfig.get_project_to_sync" \in Range(calls)

(***************************************************************************)
(* Vocabulary of the properties of the test-results event.                 *)
(***************************************************************************)
\* the chroot a fedora-copr-build artifact of the fetched details names, ""
\* where there is none (or the details are those of an installability test)
ArtifactChroot(details) ==
  IF /\ nested_get(details, "test.fmf.url") #
          TESTING_FARM_INSTALLABILITY_TEST_URL
     /\ Get(details, "environments_requested.0.artifacts.0.type") =
          "fedora-copr-build"
    THEN ArtifactParts(details["environments_requested.0.artifacts.0.id"])[2]
    ELSE ""

\* C29: in a test-results event, data recorded for the pipeline takes
\* precedence over the fetched details: when a stored test run exists for
\* the request id, commit_sha is the stored commit SHA rather than the
\* fetched test ref, copr_chroot is the stored target whenever no chroot was
\* derived from a fedora-copr-build artifact, and project_url is the stored
\* base_project_url whenever that is present; when no stored test run
\* exists all three come from the fetched details alone.
C29_StoredRunTakesPrecedence ==
  (WebhookDone /\ result.tag = "TestingFarmResultsEvent") =>
    LET stored == env.tft_test_run
        chroot == ArtifactChroot(env.tf)
    IN  IF stored.found
          THEN /\ result.fields.commit_sha = stored.commit_sha
               /\ ~Truthy(chroot) => result.fields.copr_chroot = stored.target
               /\ Truthy(chroot) => result.fields.copr_chroot = chroot
               /\ Truthy(Get(stored.data, "base_project_url")) =>
                    result.fields.project_url = stored.data["base_project_url"]
               /\ ~Truthy(Get(stored.data, "base_project_url")) =>
                    result.fields.project_url =
                      nested_get(env.tf, "test.fmf.url")
          ELSE /\ result.fields.commit_sha = nested_get(env.tf, "test.fmf.ref")
               /\ result.fields.copr_chroot = chroot
               /\ result.fields.project_url =
                    nested_get(env.tf, "test.fmf.url")

\* a stored run overrides the fetched ref and URL and supplies the chroot of
\* a run whose details name no artifact
C29_Witness ==
  /\ WebhookDone /\ result.tag = "TestingFarmResultsEvent"
  /\ env.tft_test_run.found /\ ArtifactChroot(env.tf) = ""
  /\ result.fields.commit_sha = "4b825dc642cb6eb9"
  /\ nested_get(env.tf, "test.fmf.ref") = "master"
  /\ result.fields.copr_chroot = "fedora-33-x86_64"
  /\ result.fields.project_url = "https://github.com/foo/bar"
  /\ nested_get(env.tf, "test.fmf.url") = "https://github.com/fork/bar"

(***************************************************************************)
(* Vocabulary of the properties of the Koji extractor.                     *)
(***************************************************************************)
\* the message carries info.state (an empty text counts as none)
KojiStatePresent ==
  HasKey(event, "info.state") /\ event["info.state"] # ""

\* "new" and "old" are each missing or a state of the enumeration
KojiStatesUsable ==
  \A p \in {"new", "old"} : HasKey(event, p) => event[p] \in KojiBuildState

\* the id of the first child task, in list order, whose method is buildArch
FirstBuildArch(children) ==
  CASE children = "[tagBuild:10,buildArch:11,buildArch:12]" -> "11"
    [] children = "[buildArch:11]" -> "11"
    [] OTHER -> NoneV

KojiEventDue(r) ==
  /\ IsEvent(r) /\ r.tag = "KojiBuildEvent"
  /\ r.fields.state = Get(event, "new")
  /\ r.fields.old_state = Get(event, "old")
  /\ r.fields.rpm_build_task_id = FirstBuildArch(Get(event, "info.children"))

\* C30: a Koji task-state-change message with info.state present yields a
\* Koji build event even when it lacks the "new" and/or "old" keys, with the
\* corresponding state / old_state field left empty; a message without
\* info.state yields no event; and rpm_build_task_id is the id of the first
\* child task, in list order, whose method is "buildArch", or empty when
\* there is none.
C30_KojiStateOptional ==
  (WebhookDone /\ KojiTopicRecognized /\ KojiStatesUsable) =>
    /\ KojiStatePresent => KojiEventDue(parse_koji_event(event))
    /\ ~HasKey(event, "info.state") => parse_koji_event(event) = NoneR

\* the part that holds: the same for a message whose info.state is not the
\* state code 0
NonZeroKojiStateOptional ==
  (WebhookDone /\ KojiTopicRecognized /\ KojiStatesUsable) =>
    /\ (KojiStatePresent /\ event["info.state"] # "0") =>
         /\ KojiEventDue(parse_koji_event(event))
         /\ Shape("koji") => result = parse_koji_event(event)
    /\ ~HasKey(event, "info.state") => parse_koji_event(event) = NoneR

\* a message without "new" and "old" gave an event without states
KojiWithoutStatesSeen ==
  /\ WebhookDone /\ KojiTopicRecognized /\ Shape("koji")
  /\ ~HasKey(event, "new") /\ ~HasKey(event, "old")
  /\ result.tag = "KojiBuildEvent" /\ result.fields.state = NoneV
  /\ result.fields.rpm_build_task_id = "11"

(***************************************************************************)
(* Claims about the accessors of an event                                  *)
(***************************************************************************)
\* the accessor calls recorded so far
Calls(method) == {i \in 1..Len(returns) : returns[i].method = method}

\* the build record a Copr build event was made with is empty
EmptyBuild(self) == heap[self.build.ref].items = <<>>

UnknownBuildGivesNone ==
  \E i \in Calls("from_build_id") : returns[i].value = NoneO

\* an event of a class that keeps Event.pre_check passed the guard
InheritedGuardPassed ==
  \E i \in Calls("pre_check") :
    returns[i].cls = "InstallationEvent" /\ returns[i].value.bool

\* the event classes other than the base class
ConcreteClasses == Classes \ {"Event"}

\* C23: on no concrete class does get_project or get_package_config end in
\* the base class's NotImplementedError.
C23_AccessorsImplemented ==
  \A i \in Calls("get_project") \cup Calls("get_package_config") :
    returns[i].cls \in ConcreteClasses
      => returns[i].exc # "NotImplementedError"

\* the part that holds: every concrete class but InstallationEvent has both
ImplementedUnlessInstallation ==
  \A i \in Calls("get_project") \cup Calls("get_package_config") :
    returns[i].cls \in ConcreteClasses \ {"InstallationEvent"}
      => returns[i].exc = ""

\* both accessors were called on an event of a class deriving from
\* AbstractGithubEvent
BothAccessorsAnswered ==
  /\ \E i \in Calls("get_project") :
       returns[i].cls = "ReleaseEvent" /\ returns[i].exc = ""
  /\ \E i \in Calls("get_package_config") :
       returns[i].cls = "ReleaseEvent" /\ returns[i].exc = ""

\* the reference at which a class looks for the packaging config
RefUsed(cls, self) ==
  CASE cls = "ReleaseEvent" -> self.tag_name
    [] cls = "PullRequestEvent" -> self.base_ref
    [] cls = "PullRequestCommentEvent" ->
         IF TruthyO(self.base_ref) THEN self.base_ref
         ELSE Str(forge.source_branch)
    [] cls = "IssueCommentEvent" ->
         IF forge.releases # <<>> THEN Str(forge.releases[1])
         ELSE self.tag_name
    [] OTHER -> self.ref

\* the repository has a packaging config at the reference of the call
ConfigFound(r) ==
  LET ref == RefUsed(r.cls, r.self)
  IN  /\ IsStr(ref) /\ ref.str \in forge.configs
      /\ ~IsNone(r.self.project_url)

\* the classes that define get_package_config
Implementing == Classes \ {"Event", "InstallationEvent"}

\* a call of get_package_config: nothing raised, None without a config,
\* else the config of the reference with the given upstream_project_url
ConfigAnswer(r, upstream_project_url) ==
  /\ r.exc = ""
  /\ ~ConfigFound(r) => r.value = NoneO
  /\ ConfigFound(r) =>
       r.value = [config |-> RefUsed(r.cls, r.self).str,
                  upstream_project_url |-> upstream_project_url]

UpstreamSetUnlessDistGit ==
  \A i \in Calls("get_package_config") :
    returns[i].cls \in Implementing
      => ConfigAnswer(returns[i],
                      IF returns[i].cls = "DistGitEvent" THEN NoneO
                      ELSE returns[i].self.project_url)

\* an issue comment found the config at the latest release's tag and a
\* second call found it there again
IssueCommentConfigFound ==
  \E i \in Calls("get_package_config") :
    /\ returns[i].cls = "IssueCommentEvent"
    /\ returns[i].self.tag_name = Str("")
    /\ ConfigFound(returns[i])
    /\ returns[i].value = [config |-> "1.2.4",
                           upstream_project_url |-> returns[i].self.project_url]

\* a release event whose tag has no config got None
NoConfigSeen ==
  \E i \in Calls("get_package_config") :
    /\ returns[i].cls = "ReleaseEvent"
    /\ ~ConfigFound(returns[i])
    /\ returns[i].exc = "" /\ returns[i].value = NoneO

(***************************************************************************)
(* Claims about the shared service configuration                           *)
(***************************************************************************)
\* every instance still has the rules the file gave it
RulesAsLoaded ==
  \A i \in 1..Len(instances) : instances[i].projects_to_sync = config_file

\* C27: whatever the interleaving of the workers, the configuration is
\* loaded at most once and never replaced, every call of get_service_config
\* returns the same instance, and no parse changes the rules list or the
\* action registry.
C27_ConfigLoadedOnce ==
  /\ Len(instances) <= 1
  /\ cls_service_config \in {0, 1}
  /\ Cardinality(returned) <= 1
  /\ RulesAsLoaded
  /\ MAP_COMMENT_ACTION_TO_HANDLER = <<>>

\* the part that holds: a call returns an instance, never None, every
\* instance has the rules of the file, and the registry stays as it was
SharedStateReadOnly ==
  /\ returned \subseteq 1..Len(instances)
  /\ cls_service_config = Len(instances)
  /\ RulesAsLoaded
  /\ MAP_COMMENT_ACTION_TO_HANDLER = <<>>

\* no step of a parse changes an instance that exists or the registry
ParseLeavesSharedStateAlone ==
  [][/\ \A i \in 1..Len(instances) : instances'[i] = instances[i]
     /\ MAP_COMMENT_ACTION_TO_HANDLER' = MAP_COMMENT_ACTION_TO_HANDLER]_vars

\* while one worker alone has run, the configuration is loaded once
OneWorkerLoadsOnce ==
  (\A w \in Workers \ {1} : threads[w] = Idle)
    => Len(instances) <= 1 /\ Cardinality(returned) <= 1

\* two workers each loaded the file, and calls returned both instances
LoadedTwice ==
  /\ Len(instances) = 2 /\ returned = {1, 2}
  /\ \A w \in Workers : threads[w].done = MaxRequests

\* one worker alone parsed all its messages with one instance
OneWorkerDone ==
  /\ threads[1].done = MaxRequests /\ threads[1].exc = ""
  /\ \A w \in Workers \ {1} : threads[w] = Idle
  /\ returned = {1}

====
